---- MODULE Spec2Model ----
(***************************************************************************)
(* State-machine model of the TT6581 Verilator testbench engine:           *)
(*   - the clock/tick engine            (tick, sys_tick, tick_batch)       *)
(*   - the SPI write-frame encoder      (spi_write, check_write)           *)
(*   - the PDM capture / bit packer     (PdmCapture, g_pdm_* globals)      *)
(*   - the stimulus players' main loop  (sim_tt6581_player, sim_sid_player)*)
(*   - the composed-song sample loop    (sim_tt6581)                       *)
(*                                                                         *)
(* variant selects the testbench whose code is running:                    *)
(*   "common" sim_tt6581_player.cpp on top of sim_common.h                 *)
(*   "sid"    sim_sid_player.cpp   (own sys_tick / spi_write copies)       *)
(*   "song"   sim_tt6581.cpp       (own sys_tick / spi_write copies)       *)
(*   "spi"    sim_spi.cpp          (check_write, plain tick)               *)
(***************************************************************************)
EXTENDS Integers, Sequences, FiniteSets, TLC

VARIABLES
    variant,      \* which testbench is running
    main_pc,      \* position in main()
    spi_pc,       \* position inside spi_write / check_write ("idle" outside)
    spi_div,      \* spi_div argument / SPI_CLK_DIV / SPI_RATIO
    spi_i,        \* bit index i of the frame loop (15..0)
    spi_k,        \* inner tick-loop counter k
    wq,           \* register writes still to be issued by the current caller
    cs_i, sclk_i, mosi_i, rst_ni, wave_o,   \* device pins
    tick_count,   \* tick_count / g_clk_count / g_tick_count
    sim_time,     \* VerilatedContext time (ns)
    pdm,          \* PdmCapture / g_pdm_* state, with the bytes put to the file
    last_cap,     \* observer: executed-tick number of the latest capture (-1: none)
    act_time,     \* observer: sim_time at which capture was activated (-1: not yet)
    tx,           \* observer: values driven on mosi_i during the current write, in order
    rx,           \* observer: bits seen on mosi_i at rising sclk_i edges while cs_i = 0
    writes_done,  \* observer: number of completed register writes
    w_start,      \* observer: executed-tick number at entry of the latest write
    events,       \* stimulus events (players)
    event_idx, sample_count, next_sample, total_ticks,
    target,       \* target of the current advance step
    batch_n,      \* loop counter of the reset loops / ticks left in tick_batch
    iter,         \* observer: main-loop iterations completed (n) and the tick
                  \* counter at the latest loop test (at)
    song, filter_song, filt_idx, total_samples,   \* composed-song timelines
    applied,      \* observer: events applied so far, in order of application
    cap_in,       \* observer: bits handed to capture so far (capture-only runs)
    stim,         \* the stimulus file: whether it opens, and its lines as text
    stim_src,     \* observer: what each line of the file was written from
    line_no,      \* lines of the file consumed by getline so far
    diag,         \* messages written to std::cerr, in order
    out_open,     \* the capture output file has been opened (created)
    bad_access,   \* observer: back() has been evaluated on an empty vector
    calc,         \* a coefficient call: its arguments, its result and the
                  \* register writes it asks for
    tk,           \* observer: ticks executed, device evaluations, and the
                  \* values the latest tick drove on clk_i, in order
    got_finish,   \* the device model has signalled termination
    env,          \* envelope testbench: locals of main, its pins, the start
                  \* pulses driven and the ready_o samples acted on
    rd            \* conformance-test transfer: write or read, the byte
                  \* spi_byte is assembling, the miso_o values it sampled
                  \* (observer) and the byte check_read got back (-1: none)

pinVars  == <<cs_i, sclk_i, mosi_i, rst_ni>>
tickVars == <<wave_o, tick_count, sim_time, pdm, last_cap, tk>>
spiVars  == <<spi_pc, spi_i, spi_k, wq, tx, rx, writes_done, w_start>>
loopVars == <<events, event_idx, sample_count, next_sample, total_ticks, target,
             batch_n, iter>>
songVars == <<song, filter_song, filt_idx, total_samples, applied>>
loadVars == <<stim, stim_src, line_no, diag, out_open, bad_access>>
vars == <<variant, main_pc, spi_div, pinVars, tickVars, spiVars, loopVars,
          songVars, act_time, cap_in, loadVars, calc, rd, got_finish, env>>

-----------------------------------------------------------------------------
(* Program constants *)

CLK_PERIOD_NS  == 20
CYCLES_PER_DAC == 5
SPI_IDLE_TICKS == 20
SPI_CLK_DIV_PLAYER == 2
SPI_CLK_DIV_SONG   == 20
SPI_RATIO          == 20
CHECK_WRITE_TICKS  == 5

-----------------------------------------------------------------------------
(* Fixed-width bit operations on naturals *)

RECURSIVE BitAnd(_, _)
BitAnd(a, b) ==
    IF a = 0 \/ b = 0 THEN 0
    ELSE ((a % 2) * (b % 2)) + 2 * BitAnd(a \div 2, b \div 2)

RECURSIVE BitOr(_, _)
BitOr(a, b) ==
    IF a = 0 THEN b
    ELSE IF b = 0 THEN a
    ELSE (IF (a % 2) + (b % 2) > 0 THEN 1 ELSE 0) + 2 * BitOr(a \div 2, b \div 2)

RECURSIVE Pow2(_)
Pow2(n) == IF n = 0 THEN 1 ELSE 2 * Pow2(n - 1)

Shl(a, n) == a * Pow2(n)
Shr(a, n) == a \div Pow2(n)
U8(x)  == x % 256
U16(x) == x % 65536

-----------------------------------------------------------------------------
(* PdmCapture (sim_common.h) and the g_pdm_* globals of the stand-alone     *)
(* testbenches: same fields, same code.                                     *)

PdmInit == [byte |-> 0, bit_count |-> 0, total |-> 0, active |-> FALSE,
            file |-> <<>>, closed |-> FALSE]

\* Faulty variant: new bit shifted in from the top (least-significant bit = earliest).
Capture_LsbFirst(p, pdm_bit) ==
    LET b  == U8(BitOr(Shr(p.byte, 1), Shl(BitAnd(pdm_bit, 1), 7)))
        bc == p.bit_count + 1
    IN  IF bc = 8
        THEN [p EXCEPT !.file = Append(p.file, b), !.byte = 0, !.bit_count = 0,
                       !.total = p.total + 1]
        ELSE [p EXCEPT !.byte = b, !.bit_count = bc, !.total = p.total + 1]

\* Faulty variant: the accumulator is not cleared after a byte is written.
Capture_NoClear(p, pdm_bit) ==
    LET b  == U8(BitOr(Shl(p.byte, 1), BitAnd(pdm_bit, 1)))
        bc == p.bit_count + 1
    IN  IF bc = 8
        THEN [p EXCEPT !.file = Append(p.file, b), !.byte = b, !.bit_count = 0,
                       !.total = p.total + 1]
        ELSE [p EXCEPT !.byte = b, !.bit_count = bc, !.total = p.total + 1]

\* PdmCapture::capture(pdm_bit)
Capture(p, pdm_bit) ==
    LET b  == U8(BitOr(Shl(p.byte, 1), BitAnd(pdm_bit, 1)))
        bc == p.bit_count + 1
    IN  IF bc = 8
        THEN [p EXCEPT !.file = Append(p.file, b), !.byte = 0, !.bit_count = 0,
                       !.total = p.total + 1]
        ELSE [p EXCEPT !.byte = b, !.bit_count = bc, !.total = p.total + 1]

\* Faulty variant: the pending byte is written even when no bit is pending.
Flush_Always(p) ==
    LET b == U8(Shl(p.byte, 8 - p.bit_count))
    IN  [p EXCEPT !.byte = b, !.file = Append(p.file, b), !.closed = TRUE]

\* PdmCapture::flush()
Flush(p) ==
    IF p.bit_count > 0
    THEN LET b == U8(Shl(p.byte, 8 - p.bit_count))
         IN  [p EXCEPT !.byte = b, !.file = Append(p.file, b), !.closed = TRUE]
    ELSE [p EXCEPT !.closed = TRUE]

-----------------------------------------------------------------------------
(* The device under test is opaque; its one-bit output after the clock      *)
(* edge at simulation time t is a fixed pattern of the tick number.         *)

DutWave(t) == IF ((t \div CLK_PERIOD_NS) % 3) = 0 THEN 0 ELSE 1

-----------------------------------------------------------------------------
(* Clock / tick engine.  A tick state is the part of the state one tick     *)
(* touches.                                                                 *)

TickState == [tick_count |-> tick_count, sim_time |-> sim_time, pdm |-> pdm,
              wave_o |-> wave_o, last_cap |-> last_cap, tk |-> tk]

\* One half of a tick: clk_i = level; eval(); timeInc(CLK_PERIOD_NS / 2).
HalfCycle(s, level) ==
    [s EXCEPT !.sim_time = s.sim_time + (CLK_PERIOD_NS \div 2),
              !.wave_o = DutWave(s.sim_time + (CLK_PERIOD_NS \div 2)),
              !.tk = [ticks |-> s.tk.ticks + level,
                      evals |-> s.tk.evals + 1,
                      edges |-> IF level = 0 THEN <<0>> ELSE Append(s.tk.edges, 1)]]

\* Faulty variant: the low half of the cycle is left out.
Tick_HighOnly(s) == HalfCycle(s, 1)

\* tick(): clk_i low, eval, half period; clk_i high, eval, half period.
Tick(s) == HalfCycle(HalfCycle(s, 0), 1)

\* The capture a sys_tick performs, recorded with the tick it happened on.
CaptureAt(s) ==
    [s EXCEPT !.pdm = Capture(s.pdm, s.wave_o),
              !.last_cap = s.sim_time \div CLK_PERIOD_NS]

\* sim_tt6581_player.cpp sys_tick lambda: count, then test, then capture.
SysTickCommon(s) ==
    LET a == Tick(s)
        b == [a EXCEPT !.tick_count = a.tick_count + 1]
    IN  IF b.pdm.active /\ (b.tick_count % CYCLES_PER_DAC = 0)
        THEN CaptureAt(b) ELSE b

\* Faulty variant: wrong decimation ratio in the capture test.
SysTickGlobal_Every6(s) ==
    LET a == Tick(s)
        b == IF a.pdm.active /\ (a.tick_count % (CYCLES_PER_DAC + 1) = 0)
             THEN CaptureAt(a) ELSE a
    IN  [b EXCEPT !.tick_count = b.tick_count + 1]

\* sim_sid_player.cpp / sim_tt6581.cpp sys_tick: test, capture, then count.
SysTickGlobal(s) ==
    LET a == Tick(s)
        b == IF a.pdm.active /\ (a.tick_count % CYCLES_PER_DAC = 0)
             THEN CaptureAt(a) ELSE a
    IN  [b EXCEPT !.tick_count = b.tick_count + 1]

\* The tick function each testbench hands to its SPI encoder and main loop.
SysTick(v, s) ==
    CASE v = "common" -> SysTickCommon(s)
      [] v = "sid"    -> SysTickGlobal(s)
      [] v = "song"   -> SysTickGlobal(s)
      [] OTHER        -> Tick(s)

\* tick_batch(n): n ticks, one after the other (the first half of them, then
\* the rest: the same n applications of the tick function, in order).
RECURSIVE TickBatch(_, _, _)
TickBatch(v, s, n) ==
    IF n <= 0 THEN s
    ELSE IF n = 1 THEN SysTick(v, s)
    ELSE CHOOSE r \in {TickBatch(v, m, n - (n \div 2)) :
                            m \in {TickBatch(v, s, n \div 2)}} : TRUE

\* One tick as a step of the machine.
DoTick ==
    LET s == SysTick(variant, TickState)
    IN  /\ tick_count' = s.tick_count
        /\ sim_time' = s.sim_time
        /\ pdm' = s.pdm
        /\ wave_o' = s.wave_o
        /\ last_cap' = s.last_cap
        /\ tk' = s.tk
\* Number of ticks executed so far.
Ticks == sim_time \div CLK_PERIOD_NS

-----------------------------------------------------------------------------
(* SPI write-frame encoder *)

\* Faulty variant: address shifted into the wrong position.
FrameCommon_Shift7(addr, data) == U16(BitOr(BitOr(32768, Shl(addr, 7)), data))

\* uint16_t frame of sim_common.h (and sim_tt6581.cpp): address not masked.
FrameCommon(addr, data) == U16(BitOr(BitOr(32768, Shl(addr, 8)), data))

\* Faulty variant: the address is masked to 6 bits.
FrameSid_Mask6(addr, data) == U16(BitOr(BitOr(32768, Shl(BitAnd(addr, 63), 8)), data))

\* uint16_t frame of sim_sid_player.cpp: address masked to 7 bits.
FrameSid(addr, data) == U16(BitOr(BitOr(32768, Shl(BitAnd(addr, 127), 8)), data))

\* check_write: command byte 0x80 | (addr & 0x7F), then the data byte,
\* each sent by spi_byte most-significant bit first.
FrameCheckWrite(addr, data) == Shl(U8(BitOr(128, BitAnd(addr, 127))), 8) + data

\* check_read: command byte 0x00 | (addr & 0x7F), then the byte 0x00.
FrameCheckRead(addr) == Shl(U8(BitOr(0, BitAnd(addr, 127))), 8) + 0

Frame(v, addr, data) ==
    CASE v = "sid" -> FrameSid(addr, data)
      [] v = "spi" -> FrameCheckWrite(addr, data)
      [] OTHER     -> FrameCommon(addr, data)

\* Faulty variant: least-significant bit first.
FrameBit_LsbFirst(frame, i) == BitAnd(Shr(frame, 15 - i), 1)

\* (frame >> i) & 1
FrameBit(frame, i) == BitAnd(Shr(frame, i), 1)

\* Faulty variant: each half of a bit period lasts a quarter of spi_div.
HalfTicks_Quarter(div) == div \div 4

\* Faulty variant: each half of a bit period lasts spi_div ticks.
HalfTicks_Full(div) == div

\* Ticks of one half of a bit period: spi_div / 2 (int division).
HalfTicks(div) == div \div 2

\* Ticks between the last bit and the release of chip-select.
TrailTicks(v, div) == IF v = "spi" THEN CHECK_WRITE_TICKS ELSE HalfTicks(div)

\* Faulty variant: one idle tick short.
IdleTicks_Short(v) == IF v = "spi" THEN CHECK_WRITE_TICKS ELSE SPI_IDLE_TICKS - 1

\* Ticks after the release of chip-select before the encoder returns.
IdleTicks(v) == IF v = "spi" THEN CHECK_WRITE_TICKS ELSE SPI_IDLE_TICKS

SpiIdle == spi_pc = "idle"
CurWrite == Head(wq)

\* The 16 bits the current transfer sends.
CurFrame ==
    IF rd.op = "read" THEN FrameCheckRead(CurWrite[1])
    ELSE Frame(variant, CurWrite[1], CurWrite[2])

NoTransfer == [op |-> "write", data_in |-> 0, seen |-> <<>>, result |-> -1]

\* Faulty variant: the sampled bit is placed least-significant first.
ReadAccum_LsbFirst(data_in, i, b) ==
    IF b = 1 THEN BitOr(data_in, Shl(1, 7 - i)) ELSE data_in

\* spi_byte: if (miso_bit) data_in |= (1 << i);
ReadAccum(data_in, i, b) ==
    IF b = 1 THEN BitOr(data_in, Shl(1, i)) ELSE data_in

\* What miso_o may show when spi_bit samples it.  The device is opaque; the
\* sample matters only for the byte check_read keeps (its second spi_byte).
Sampling == rd.op = "read" /\ spi_i <= 7
MisoValues == IF Sampling THEN {0, 1} ELSE {0}

\* spi_byte of the response: data_in after this bit, and the byte returned
\* to check_read after the last one.
ReadBit(r, i, b) ==
    LET di == ReadAccum(r.data_in, i, b)
    IN  [r EXCEPT !.data_in = di, !.seen = Append(r.seen, b),
                  !.result = IF i = 0 THEN di ELSE r.result]

\* Entry: frame computed, cs_i = 0.
SpiCall ==
    /\ SpiIdle /\ wq # <<>>
    /\ cs_i' = 0
    /\ spi_i' = 15
    /\ spi_pc' = "bit"
    /\ tx' = <<>> /\ rx' = <<>>
    /\ w_start' = Ticks
    /\ UNCHANGED <<env, got_finish, rd, calc, loadVars, variant, main_pc, spi_div, sclk_i, mosi_i, rst_ni, tickVars,
                   spi_k, wq, writes_done, loopVars, songVars, act_time,
                   cap_in>>

\* mosi_i = (frame >> i) & 1
SpiDrive ==
    /\ spi_pc = "bit"
    /\ mosi_i' = FrameBit(CurFrame, spi_i)
    /\ tx' = Append(tx, mosi_i')
    /\ spi_k' = 0
    /\ spi_pc' = "low"
    /\ UNCHANGED <<env, got_finish, rd, calc, loadVars, variant, main_pc, spi_div, cs_i, sclk_i, rst_ni, tickVars,
                   spi_i, wq, rx, writes_done, w_start, loopVars,
                   songVars, act_time, cap_in>>

\* One tick of any of the encoder's tick loops.
SpiTickIn(pc, limit) ==
    /\ spi_pc = pc
    /\ spi_k < limit
    /\ DoTick
    /\ spi_k' = spi_k + 1
    /\ UNCHANGED <<env, got_finish, rd, calc, loadVars, variant, main_pc, spi_div, pinVars, spi_pc, spi_i, wq, tx, rx,
                   writes_done, w_start, loopVars, songVars, act_time,
                   cap_in>>

SpiTickLow   == SpiTickIn("low", HalfTicks(spi_div))
SpiTickHigh  == SpiTickIn("high", HalfTicks(spi_div))
SpiTickTrail == SpiTickIn("trail", TrailTicks(variant, spi_div))
SpiTickIdle  == SpiTickIn("wait", IdleTicks(variant))

\* sclk_i = 1; a receiver samples mosi_i on this edge while selected.
SpiRaise ==
    /\ spi_pc = "low"
    /\ spi_k >= HalfTicks(spi_div)
    /\ sclk_i' = 1
    /\ rx' = IF cs_i = 0 /\ sclk_i = 0 THEN Append(rx, mosi_i) ELSE rx
    /\ spi_k' = 0
    /\ spi_pc' = "high"
    /\ UNCHANGED <<env, got_finish, rd, calc, loadVars, variant, main_pc, spi_div, cs_i, mosi_i, rst_ni, tickVars,
                   spi_i, wq, tx, writes_done, w_start, loopVars, songVars,
                   act_time, cap_in>>

\* sclk_i = 0; bit_in = miso_o (conformance test); i--
SpiLower ==
    /\ spi_pc = "high"
    /\ spi_k >= HalfTicks(spi_div)
    /\ sclk_i' = 0
    /\ \E b \in MisoValues :
          rd' = IF Sampling THEN ReadBit(rd, spi_i, b) ELSE rd
    /\ spi_i' = spi_i - 1
    /\ spi_k' = 0
    /\ spi_pc' = IF spi_i - 1 >= 0 THEN "bit" ELSE "trail"
    /\ UNCHANGED <<env, got_finish, calc, loadVars, variant, main_pc, spi_div, cs_i, mosi_i, rst_ni, tickVars,
                   wq, tx, rx, writes_done, w_start, loopVars, songVars,
                   act_time, cap_in>>

\* Faulty variant: chip-select is left asserted.
SpiDeassert_Low ==
    /\ spi_pc = "trail"
    /\ spi_k >= TrailTicks(variant, spi_div)
    /\ cs_i' = 0
    /\ spi_k' = 0
    /\ spi_pc' = "wait"
    /\ UNCHANGED <<env, got_finish, rd, calc, loadVars, variant, main_pc, spi_div, sclk_i, mosi_i, rst_ni, tickVars,
                   spi_i, wq, tx, rx, writes_done, w_start, loopVars,
                   songVars, act_time, cap_in>>

\* cs_i = 1
SpiDeassert ==
    /\ spi_pc = "trail"
    /\ spi_k >= TrailTicks(variant, spi_div)
    /\ cs_i' = 1
    /\ spi_k' = 0
    /\ spi_pc' = "wait"
    /\ UNCHANGED <<env, got_finish, rd, calc, loadVars, variant, main_pc, spi_div, sclk_i, mosi_i, rst_ni, tickVars,
                   spi_i, wq, tx, rx, writes_done, w_start, loopVars,
                   songVars, act_time, cap_in>>

\* Return to the caller.
SpiReturn ==
    /\ spi_pc = "wait"
    /\ spi_k >= IdleTicks(variant)
    /\ spi_pc' = "idle"
    /\ wq' = Tail(wq)
    /\ writes_done' = writes_done + 1
    /\ UNCHANGED <<env, got_finish, rd, calc, loadVars, variant, main_pc, spi_div, pinVars, tickVars, spi_i, spi_k,
                   tx, rx, w_start, loopVars, songVars, act_time, cap_in>>

SpiStep ==
    \/ SpiCall \/ SpiDrive \/ SpiTickLow \/ SpiRaise \/ SpiTickHigh
    \/ SpiLower \/ SpiTickTrail \/ SpiDeassert \/ SpiTickIdle \/ SpiReturn

-----------------------------------------------------------------------------
(* Back-to-back register writes: a caller that issues up to MaxWrites       *)
(* writes, one right after the other, with any address and data.           *)

MaxWrites  == 3
MaxHalfDiv == 2

\* Even dividers 2, 4, .. for the sim_common.h encoder; the fixed dividers
\* of the other encoders.
Dividers(v) ==
    CASE v = "common" -> {2 * h : h \in 1..MaxHalfDiv}
      [] v = "sid"    -> {SPI_CLK_DIV_PLAYER}
      [] v = "song"   -> {SPI_CLK_DIV_SONG}
      [] OTHER        -> {SPI_RATIO}

Variants == {"common", "sid", "song", "spi"}
\* Register writes a caller may issue: <<addr, data>>, among them the
\* conformance test's 0x02/0xFF and 0x05/0xAA and addresses above 0x7F.
WriteSet == {<<2, 255>>, <<5, 170>>, <<0, 0>>, <<127, 85>>, <<42, 1>>,
             <<130, 128>>, <<255, 254>>}

\* The envelope testbench before its loop: start_i = 0, voice_idx_i = 0,
\* gate_i = 0, counters and phase zero; no pulse driven yet.
EnvInit ==
    [cycle_count |-> 0, sample_timer |-> 0, current_voice |-> 0, tdm_phase |-> 0,
     start_i |-> 0, voice_idx_i |-> 0, gate_i |-> 0, ready_o |-> 0,
     starts |-> <<>>, readies |-> <<>>]

\* What every run starts from: pins as main() sets them, nothing captured.
InitEngine ==
    /\ spi_pc = "idle" /\ spi_i = 0 /\ spi_k = 0 /\ wq = <<>>
    /\ cs_i = 1 /\ sclk_i = 0 /\ mosi_i = 0 /\ rst_ni = 0 /\ wave_o = 0
    /\ tick_count = 0 /\ sim_time = 0
    /\ pdm = PdmInit
    /\ last_cap = -1 /\ act_time = -1
    /\ tx = <<>> /\ rx = <<>> /\ writes_done = 0 /\ w_start = 0
    /\ applied = <<>> /\ cap_in = <<>>
    /\ rd = NoTransfer
    /\ got_finish = FALSE
    /\ env = EnvInit
    /\ tk = [ticks |-> 0, evals |-> 0, edges |-> <<>>]

\* Runs that start after the stimulus has been loaded (or that have none).
NoLoad ==
    /\ stim = [exists |-> TRUE, lines |-> <<>>] /\ stim_src = <<>>
    /\ line_no = 0 /\ diag = <<>> /\ out_open = FALSE /\ bad_access = FALSE

\* Runs in which no coefficient call is looked at on its own.
NoCalc ==
    calc = [fn |-> "none", base |-> 0, freq |-> 0, fc |-> 0, q |-> 0,
            out |-> 0, writes |-> <<>>, done |-> FALSE]

InitCommon == InitEngine /\ NoLoad /\ NoCalc

NoLoop ==
    /\ events = <<>> /\ event_idx = 0 /\ sample_count = 0 /\ next_sample = 0
    /\ total_ticks = 0 /\ target = 0 /\ batch_n = 0
    /\ iter = [n |-> 0, at |-> 0]

NoSong == song = <<>> /\ filter_song = <<>> /\ filt_idx = 0 /\ total_samples = 0

InitSpi ==
    /\ InitCommon /\ NoLoop /\ NoSong
    /\ variant \in Variants
    /\ spi_div \in Dividers(variant)
    /\ main_pc = "writes"

IssueWrite ==
    /\ main_pc = "writes"
    /\ SpiIdle /\ wq = <<>>
    /\ writes_done < MaxWrites
    /\ \E w \in WriteSet : wq' = <<w>>
    /\ UNCHANGED <<env, got_finish, rd, calc, loadVars, variant, main_pc, spi_div, pinVars, tickVars, spi_pc, spi_i,
                   spi_k, tx, rx, writes_done, w_start, loopVars, songVars,
                   act_time, cap_in>>

NextSpi == IssueWrite \/ SpiStep

SpecSpi == InitSpi /\ [][NextSpi]_vars

-----------------------------------------------------------------------------
(* Claims about the write-frame encoder *)

\* Duration of one write as the specification states it.
WriteDuration(d) == 16 * d + (d \div 2) + 20

\* C1: with an even divider >= 2, N back-to-back spi_write calls advance the
\* tick counter by exactly N * (16*div + div/2 + 20), and each single write
\* takes 16*div + div/2 + 20 ticks whatever its address and data.
C1_WriteTicks ==
    (variant # "spi" /\ SpiIdle) =>
        /\ tick_count = writes_done * WriteDuration(spi_div)
        /\ writes_done > 0 => Ticks - w_start = WriteDuration(spi_div)

C1_Witness ==
    /\ variant = "common" /\ spi_div = 4 /\ SpiIdle /\ wq = <<>>
    /\ writes_done = 3 /\ tick_count = 3 * 86

\* Bit i of the frame, from the address and data alone.
ExpectedBit(addr, data, i) ==
    IF i = 15 THEN 1
    ELSE IF i >= 8 THEN (addr \div Pow2(i - 8)) % 2
    ELSE (data \div Pow2(i)) % 2

ExpectedFrame(addr, data) == [j \in 1..16 |-> ExpectedBit(addr, data, 16 - j)]

InFrame == spi_pc \in {"bit", "low", "high", "trail"}

\* C2: the values driven on mosi_i are, in order, 1, address bits 6..0 and
\* data bits 7..0, most-significant first, and cs_i is 0 from before the
\* first bit is driven until the 16th bit's clock pulse has completed.
C2_FrameOrder ==
    /\ InFrame => cs_i = 0
    /\ ~SpiIdle =>
          /\ Len(tx) <= 16
          /\ \A j \in 1..Len(tx) : tx[j] = ExpectedFrame(CurWrite[1], CurWrite[2])[j]
          /\ spi_pc \in {"low", "high"} => (Len(tx) = 16 - spi_i /\ mosi_i = tx[Len(tx)])
          /\ spi_pc \in {"trail", "wait"} => Len(tx) = 16

C2_Witness ==
    /\ variant = "common" /\ spi_pc = "trail" /\ cs_i = 0
    /\ CurWrite = <<130, 128>>
    /\ tx = <<1, 0,0,0,0,0,1,0, 1,0,0,0,0,0,0,0>>

\* A receiver assembling the sampled bits most-significant first.
RECURSIVE RxValue(_)
RxValue(bits) ==
    IF bits = <<>> THEN 0
    ELSE 2 * RxValue(SubSeq(bits, 1, Len(bits) - 1)) + bits[Len(bits)]

RxFlag == RxValue(rx) \div 32768
RxAddr == (RxValue(rx) \div 256) % 128
RxData == RxValue(rx) % 256

\* C3: for a 7-bit address a and data d, sampling mosi_i at the 16 rising
\* sclk_i edges while cs_i is low and assembling the bits most-significant
\* first recovers write flag 1, address a and data d.
C3_RoundTrip ==
    (spi_pc \in {"trail", "wait"} /\ CurWrite[1] < 128) =>
        /\ Len(rx) = 16
        /\ RxFlag = 1
        /\ RxAddr = CurWrite[1]
        /\ RxData = CurWrite[2]

C3_Witness ==
    /\ variant = "spi" /\ spi_pc = "wait"
    /\ CurWrite = <<2, 255>> /\ RxAddr = 2 /\ RxData = 255 /\ RxFlag = 1

-----------------------------------------------------------------------------
(* The bit packer on its own: any sequence of up to MaxBits captured bits,  *)
(* then the one flush at the end of the run.                               *)

MaxBits == 10

InitCapture ==
    /\ InitCommon /\ NoLoop /\ NoSong
    /\ variant = "common"
    /\ spi_div = SPI_CLK_DIV_PLAYER
    /\ main_pc = "capture"

CaptureBit ==
    /\ main_pc = "capture"
    /\ Len(cap_in) < MaxBits
    /\ \E b \in {0, 1} :
          /\ pdm' = Capture(pdm, b)
          /\ cap_in' = Append(cap_in, b)
    /\ UNCHANGED <<env, got_finish, tk, rd, calc, loadVars, variant, main_pc, spi_div, pinVars, wave_o, tick_count,
                   sim_time, last_cap, spiVars, loopVars, songVars, act_time>>

FlushCapture ==
    /\ main_pc = "capture"
    /\ pdm' = Flush(pdm)
    /\ main_pc' = "flushed"
    /\ UNCHANGED <<env, got_finish, tk, rd, calc, loadVars, variant, spi_div, pinVars, wave_o, tick_count, sim_time,
                   last_cap, spiVars, loopVars, songVars, act_time, cap_in>>

NextCapture == CaptureBit \/ FlushCapture

SpecCapture == InitCapture /\ [][NextCapture]_vars

\* C5: for C captured bits the file holds C div 8 bytes during the run and
\* ceil(C / 8) bytes after the flush: the flush adds exactly one byte if and
\* only if C is not a multiple of 8.
C5_ByteCount ==
    LET C == Len(cap_in)
    IN  /\ main_pc = "capture" => Len(pdm.file) = C \div 8
        /\ main_pc = "flushed" =>
              /\ Len(pdm.file) = (C + 7) \div 8
              /\ Len(pdm.file) = (C \div 8) + (IF C % 8 = 0 THEN 0 ELSE 1)
              /\ pdm.closed

C5_Witness ==
    /\ main_pc = "flushed" /\ Len(cap_in) = 9 /\ Len(pdm.file) = 2

\* Bit n (from 0) of the file, unpacking each byte most-significant first.
FileBit(f, n) == (f[(n \div 8) + 1] \div Pow2(7 - (n % 8))) % 2

\* C6: output byte k holds bits b(8k)..b(8k+7) with b(8k) most significant;
\* a final partial byte holds the remaining bits left-aligned with zeros
\* below; unpacking the file MSB-first and keeping the first `total` bits
\* gives back the captured sequence.
C6_Packing ==
    /\ \A n \in 0..(8 * Len(pdm.file) - 1) :
          FileBit(pdm.file, n) = IF n < Len(cap_in) THEN cap_in[n + 1] ELSE 0
    /\ \A j \in 1..Len(pdm.file) : pdm.file[j] \in 0..255
    /\ pdm.total = Len(cap_in)
    /\ main_pc = "flushed" => 8 * Len(pdm.file) >= pdm.total

C6_Witness ==
    /\ main_pc = "flushed"
    /\ cap_in = <<1, 0, 1, 1, 0, 0, 0, 1, 1, 1>>
    /\ pdm.file = <<177, 192>>

-----------------------------------------------------------------------------
(* Stimulus players: main() of sim_tt6581_player.cpp ("common") and of      *)
(* sim_sid_player.cpp ("sid").                                              *)

\* Scaled-down run lengths: ticks per audio sample (1000 in the source) and
\* the tail after the last event (one second of ticks in the source, and as
\* there longer than the reset sequence).
TICKS_PER_SAMPLE == 40
TAIL_TICKS       == 110
MaxEvents        == 2

RESET_TICKS_COMMON == 5
RESET_TICKS_SID    == 50

\* Length of each of the two reset loops.
ResetTicks(v) == IF v = "common" THEN RESET_TICKS_COMMON ELSE RESET_TICKS_SID

Players == {"common", "sid"}

\* Ticks a stimulus file may carry: before the end of reset, shortly after
\* it, closer together than one write, and further apart.
EventTicks(v) ==
    {0, 2 * ResetTicks(v) + 2, 2 * ResetTicks(v) + 5, 2 * ResetTicks(v) + 70}

PlayerWrites == {<<2, 255>>, <<5, 170>>}

StimulusEvent(v) ==
    {[clk_tick |-> t, addr |-> w[1], data |-> w[2]] :
        t \in EventTicks(v), w \in PlayerWrites}

\* load_stimulus keeps file order; nothing sorts the list.
EventLists(v) ==
    UNION {[1..n -> StimulusEvent(v)] : n \in 1..MaxEvents}

InitPlayer ==
    /\ InitCommon /\ NoSong
    /\ variant \in Players
    /\ spi_div = SPI_CLK_DIV_PLAYER
    /\ events \in EventLists(variant)
    /\ total_ticks = events[Len(events)].clk_tick + TAIL_TICKS
    /\ event_idx = 0 /\ sample_count = 0 /\ next_sample = 0
    /\ target = 0 /\ batch_n = 0
    /\ iter = [n |-> 0, at |-> 0]
    /\ main_pc = "reset0"

\* for (i < N) sys_tick();  -- either reset loop
ResetTick ==
    /\ main_pc \in {"reset0", "reset1"}
    /\ batch_n < ResetTicks(variant)
    /\ DoTick
    /\ batch_n' = batch_n + 1
    /\ UNCHANGED <<env, got_finish, rd, calc, loadVars, variant, main_pc, spi_div, pinVars, spiVars, events,
                   event_idx, sample_count, next_sample, total_ticks, iter, target,
                   songVars, act_time, cap_in>>

\* top->rst_ni = 1
ResetRelease ==
    /\ main_pc = "reset0"
    /\ batch_n >= ResetTicks(variant)
    /\ rst_ni' = 1
    /\ batch_n' = 0
    /\ main_pc' = "reset1"
    /\ UNCHANGED <<env, got_finish, rd, calc, loadVars, variant, spi_div, cs_i, sclk_i, mosi_i, tickVars, spiVars,
                   events, event_idx, sample_count, next_sample, total_ticks, iter,
                   target, songVars, act_time, cap_in>>

\* pdm.active = true; event_idx = 0; sample_count = 0; next_sample = one period
Activate ==
    /\ main_pc = "reset1"
    /\ batch_n >= ResetTicks(variant)
    /\ pdm' = [pdm EXCEPT !.active = TRUE]
    /\ act_time' = sim_time
    /\ event_idx' = 0
    /\ sample_count' = 0
    /\ next_sample' = TICKS_PER_SAMPLE
    /\ batch_n' = 0
    /\ main_pc' = "loop"
    /\ UNCHANGED <<env, got_finish, tk, rd, calc, loadVars, variant, spi_div, pinVars, wave_o, tick_count, sim_time,
                   last_cap, spiVars, events, total_ticks, iter, target, songVars,
                   cap_in>>

\* while (tick_count < total_ticks)
LoopTest ==
    /\ main_pc = "loop"
    /\ main_pc' = IF tick_count < total_ticks THEN "dispatch" ELSE "flush"
    /\ iter' = [iter EXCEPT !.at = tick_count]
    /\ UNCHANGED <<env, got_finish, rd, calc, loadVars, variant, spi_div, pinVars, tickVars, spiVars, events,
                   event_idx, sample_count, next_sample, total_ticks, target,
                   batch_n, songVars, act_time, cap_in>>

\* Faulty variant: the next event is dispatched whatever its tick.
EventDue_Any == event_idx < Len(events)

\* Faulty variant: an event is due only after its tick has passed.
EventDue_Strict == event_idx < Len(events) /\ events[event_idx + 1].clk_tick < tick_count

\* event_idx < events.size() && events[event_idx].clk_tick <= tick_count
EventDue == event_idx < Len(events) /\ events[event_idx + 1].clk_tick <= tick_count

\* Faulty variant: the write is issued for the entry before the due one.
DispatchCall_Stale ==
    /\ main_pc = "dispatch"
    /\ EventDue
    /\ wq' = IF event_idx = 0
             THEN <<<<events[1].addr, events[1].data>>>>
             ELSE <<<<events[event_idx].addr, events[event_idx].data>>>>
    /\ main_pc' = "writing"
    /\ UNCHANGED <<env, got_finish, rd, calc, loadVars, variant, spi_div, pinVars, tickVars, spi_pc, spi_i, spi_k,
                   tx, rx, writes_done, w_start, loopVars, songVars, act_time,
                   cap_in>>

\* Faulty variant: the write is issued for the last entry of the list.
DispatchCall_Last ==
    /\ main_pc = "dispatch"
    /\ EventDue
    /\ wq' = <<<<events[Len(events)].addr, events[Len(events)].data>>>>
    /\ main_pc' = "writing"
    /\ UNCHANGED <<env, got_finish, rd, calc, loadVars, variant, spi_div, pinVars, tickVars, spi_pc, spi_i, spi_k,
                   tx, rx, writes_done, w_start, loopVars, songVars, act_time,
                   cap_in>>

\* while (event due) { spi_write(ev.addr, ev.data) ...
DispatchCall ==
    /\ main_pc = "dispatch"
    /\ EventDue
    /\ wq' = <<<<events[event_idx + 1].addr, events[event_idx + 1].data>>>>
    /\ main_pc' = "writing"
    /\ UNCHANGED <<env, got_finish, rd, calc, loadVars, variant, spi_div, pinVars, tickVars, spi_pc, spi_i, spi_k,
                   tx, rx, writes_done, w_start, loopVars, songVars, act_time,
                   cap_in>>

\* ... event_idx++; }
DispatchNext ==
    /\ main_pc = "writing"
    /\ SpiIdle /\ wq = <<>>
    /\ event_idx' = event_idx + 1
    /\ main_pc' = "dispatch"
    /\ UNCHANGED <<env, got_finish, rd, calc, loadVars, variant, spi_div, pinVars, tickVars, spiVars, events,
                   sample_count, next_sample, total_ticks, iter, target, batch_n,
                   songVars, act_time, cap_in>>

Min(a, b) == IF a < b THEN a ELSE b

\* Faulty variant: the next event is left out of the target.
NextTarget_NoEvent(ev, idx, total, ns) == Min(total, ns)

\* Faulty variant: the sample boundary is left out of the target.
NextTarget_NoSample(ev, idx, total, ns) ==
    IF idx < Len(ev) THEN Min(total, ev[idx + 1].clk_tick) ELSE total

\* Faulty variant: the budget is left out of the target.
NextTarget_NoTotal(ev, idx, total, ns) ==
    IF idx < Len(ev) THEN Min(ev[idx + 1].clk_tick, ns) ELSE ns

\* Faulty variant: the target is always the end of the run.
NextTarget_TotalOnly(ev, idx, total, ns) == total

\* target = min(total_ticks, next event's tick if any, next_sample)
NextTarget(ev, idx, total, ns) ==
    LET t0 == total
        t1 == IF idx < Len(ev) THEN Min(t0, ev[idx + 1].clk_tick) ELSE t0
    IN  Min(t1, ns)

\* Faulty variant: no single-tick fallback when the target is not ahead.
Advance_NoFallback ==
    /\ main_pc = "dispatch"
    /\ ~EventDue
    /\ target' = NextTarget(events, event_idx, total_ticks, next_sample)
    /\ IF target' > tick_count
       THEN batch_n' = target' - tick_count /\ main_pc' = "batch"
       ELSE batch_n' = 0 /\ main_pc' = "report"
    /\ UNCHANGED <<env, got_finish, rd, calc, loadVars, variant, spi_div, pinVars, tickVars, spiVars, events,
                   event_idx, sample_count, next_sample, total_ticks, iter,
                   songVars, act_time, cap_in>>

\* No event due: compute the target and choose the advance.
Advance ==
    /\ main_pc = "dispatch"
    /\ ~EventDue
    /\ target' = NextTarget(events, event_idx, total_ticks, next_sample)
    /\ IF target' > tick_count
       THEN batch_n' = target' - tick_count /\ main_pc' = "batch"
       ELSE batch_n' = 0 /\ main_pc' = "single"
    /\ UNCHANGED <<env, got_finish, rd, calc, loadVars, variant, spi_div, pinVars, tickVars, spiVars, events,
                   event_idx, sample_count, next_sample, total_ticks, iter, songVars,
                   act_time, cap_in>>

\* tick_batch(target - tick_count), tick by tick
BatchTick ==
    /\ main_pc = "batch"
    /\ batch_n > 0
    /\ DoTick
    /\ batch_n' = batch_n - 1
    /\ main_pc' = IF batch_n - 1 > 0 THEN "batch" ELSE "report"
    /\ UNCHANGED <<env, got_finish, rd, calc, loadVars, variant, spi_div, pinVars, spiVars, events, event_idx,
                   sample_count, next_sample, total_ticks, iter, target, songVars,
                   act_time, cap_in>>

\* else sys_tick();
SingleTick ==
    /\ main_pc = "single"
    /\ DoTick
    /\ main_pc' = "report"
    /\ UNCHANGED <<env, got_finish, rd, calc, loadVars, variant, spi_div, pinVars, spiVars, loopVars, songVars,
                   act_time, cap_in>>

\* Faulty variant: next_sample is computed from the count before its increment.
Report_StaleCount ==
    /\ main_pc = "report"
    /\ IF tick_count >= next_sample
       THEN /\ sample_count' = sample_count + 1
            /\ next_sample' = (sample_count + 1) * TICKS_PER_SAMPLE
       ELSE UNCHANGED <<sample_count, next_sample>>
    /\ main_pc' = "loop"
    /\ iter' = [iter EXCEPT !.n = iter.n + 1]
    /\ UNCHANGED <<env, got_finish, rd, calc, loadVars, variant, spi_div, pinVars, tickVars, spiVars, events,
                   event_idx, total_ticks, target, batch_n, songVars, act_time,
                   cap_in>>

\* if (tick_count >= next_sample) { sample_count++; next_sample = ... }
Report ==
    /\ main_pc = "report"
    /\ IF tick_count >= next_sample
       THEN /\ sample_count' = sample_count + 1
            /\ next_sample' = (sample_count + 2) * TICKS_PER_SAMPLE
       ELSE UNCHANGED <<sample_count, next_sample>>
    /\ main_pc' = "loop"
    /\ iter' = [iter EXCEPT !.n = iter.n + 1]
    /\ UNCHANGED <<env, got_finish, rd, calc, loadVars, variant, spi_div, pinVars, tickVars, spiVars, events,
                   event_idx, total_ticks, target, batch_n, songVars, act_time,
                   cap_in>>

\* pdm.flush() after the loop
FlushRun ==
    /\ main_pc = "flush"
    /\ pdm' = Flush(pdm)
    /\ main_pc' = "done"
    /\ UNCHANGED <<env, got_finish, tk, rd, calc, loadVars, variant, spi_div, pinVars, wave_o, tick_count, sim_time,
                   last_cap, spiVars, loopVars, songVars, act_time, cap_in>>

NextPlayer ==
    \/ ResetTick \/ ResetRelease \/ Activate \/ LoopTest
    \/ DispatchCall \/ DispatchNext \/ Advance \/ BatchTick \/ SingleTick
    \/ Report \/ FlushRun \/ SpiStep

SpecPlayer == InitPlayer /\ [][NextPlayer]_vars

-----------------------------------------------------------------------------
(* Claims about the stimulus players *)

\* Ticks executed since capture was activated.
ActiveTicks == (sim_time - act_time) \div CLK_PERIOD_NS

\* C4: in every player variant, after T ticks executed while capture is
\* active, the number of captured PDM bits equals floor(T / CYCLES_PER_DAC).
C4_CapturedFloor ==
    pdm.active => pdm.total = ActiveTicks \div CYCLES_PER_DAC

\* The counter value a sys_tick tests when it decides to capture.
TestedCount == IF variant = "common" THEN tick_count' ELSE tick_count

\* C7: while capture is active, consecutive captures are exactly
\* CYCLES_PER_DAC executed ticks apart, whoever produces the ticks, and a
\* capture happens only on a tick whose counter value is 0 modulo the ratio.
C7_CaptureSpacing ==
    /\ [][pdm'.total # pdm.total =>
            /\ pdm.active
            /\ pdm'.total = pdm.total + 1
            /\ TestedCount % CYCLES_PER_DAC = 0
            /\ last_cap' = sim_time' \div CLK_PERIOD_NS
            /\ last_cap >= 0 => last_cap' - last_cap = CYCLES_PER_DAC]_vars
    /\ [](pdm.active /\ last_cap >= 0 => Ticks - last_cap < CYCLES_PER_DAC)

\* A capture taken by a tick inside an SPI write, five ticks after one taken
\* by the merger's advance.
C7_Witness ==
    /\ variant = "sid" /\ spi_pc = "low" /\ spi_i = 14 /\ spi_k = 1
    /\ last_cap = Ticks /\ pdm.total >= 2

IsSorted(ev) == \A j \in 1..(Len(ev) - 1) : ev[j].clk_tick <= ev[j + 1].clk_tick

InMainLoop == main_pc \in {"loop", "dispatch", "writing", "batch", "single", "report"}

Dispatched == 1..event_idx
Pending    == (event_idx + 1)..Len(events)

\* States in which the clock is being advanced: by the merger's advance step
\* or by the ticks of an SPI write.
ClockAdvancing == main_pc \in {"writing", "batch", "single"}

AfterReset(ev) == \A j \in 1..Len(ev) : ev[j].clk_tick >= 2 * ResetTicks(variant)

Increasing(ev) == \A j \in 1..(Len(ev) - 1) : ev[j].clk_tick < ev[j + 1].clk_tick

\* C8 as stated: the counter is >= the tick of every dispatched event and
\* < the tick of every pending event, so neither an advance step nor the
\* ticks inside an SPI write carry the clock to or past a pending event.
\* (Read over a list of strictly increasing ticks, all after the reset.)
C8_AsClaimed ==
    (ClockAdvancing /\ Increasing(events) /\ AfterReset(events)) =>
        /\ \A j \in Dispatched : events[j].clk_tick <= tick_count
        /\ \A j \in Pending \ {IF main_pc = "writing" THEN event_idx + 1 ELSE 0} :
              tick_count < events[j].clk_tick

\* C8 amended: over a tick-sorted list the counter is >= the tick of every
\* dispatched event (and of the event being written); every pending event is
\* strictly ahead of the counter when the merger computes its target, and
\* not behind it throughout the advance step that follows.  Only the ticks
\* consumed inside an SPI write carry the counter past a pending event.
C8_DispatchedBehind ==
    (InMainLoop /\ IsSorted(events)) =>
        /\ \A j \in Dispatched : events[j].clk_tick <= tick_count
        /\ main_pc = "writing" => events[event_idx + 1].clk_tick <= tick_count
        /\ main_pc = "single" => \A j \in Pending : tick_count < events[j].clk_tick
        /\ main_pc = "batch" => \A j \in Pending : tick_count < events[j].clk_tick
        /\ main_pc = "report" => \A j \in Pending : tick_count <= events[j].clk_tick

\* The advance has arrived exactly at the tick of the second event, with the
\* first one dispatched.
C8_Witness ==
    /\ main_pc = "report" /\ IsSorted(events) /\ Len(events) = 2
    /\ event_idx = 1 /\ writes_done = 1
    /\ events[1].clk_tick < events[2].clk_tick
    /\ tick_count = events[2].clk_tick

\* Runs for the progress argument: every tick pattern, one register value
\* (the ticks a write consumes do not depend on its address or data).
InitProgress ==
    /\ InitPlayer
    /\ \A j \in 1..Len(events) : events[j].addr = 2 /\ events[j].data = 255

\* The players are sequential programs: a step that can be taken is taken.
SpecPlayerFair == InitProgress /\ [][NextPlayer]_vars /\ WF_vars(NextPlayer)

\* C11: for every stimulus sequence (events sharing a tick, events in the
\* past, events out of order) every iteration of the main loop raises the tick
\* counter by at least one, the number of iterations never exceeds
\* total_ticks, and the loop exits with the counter >= total_ticks.
C11_ForwardProgress ==
    /\ [][(main_pc = "report" /\ main_pc' = "loop") =>
              tick_count' >= iter.at + 1]_vars
    /\ [](iter.n <= total_ticks /\ iter.n <= tick_count)
    /\ [](main_pc \in {"flush", "done"} => tick_count >= total_ticks)
    /\ <>(main_pc = "done")

\* A finished run over a list whose second event lies before the first (and
\* before the end of reset), both written, after at least two iterations.
C11_Witness ==
    /\ main_pc = "done" /\ iter.n >= 2
    /\ Len(events) = 2 /\ event_idx = 2
    /\ events[1].clk_tick > events[2].clk_tick
    /\ events[2].clk_tick < 2 * ResetTicks(variant)

\* Least element of a non-empty set of ticks.
MinOf(S) == CHOOSE x \in S : \A y \in S : x <= y

\* Ticks the advance step may have to stop at: the total-tick budget, the
\* next sample boundary and the tick of every pending event.
PointsOfInterest ==
    {total_ticks, next_sample} \cup {events[j].clk_tick : j \in Pending}

C13_ConsumedOnce ==
    /\ [][events' = events]_vars
    /\ [][event_idx' # event_idx =>
              /\ event_idx' = event_idx + 1
              /\ writes_done = event_idx + 1 /\ writes_done' = writes_done
              /\ RxFlag = 1
              /\ RxAddr = events[event_idx + 1].addr
              /\ RxData = events[event_idx + 1].data]_vars
    /\ [](writes_done \in {event_idx, event_idx + 1})
    /\ [](main_pc # "writing" => writes_done = event_idx)
    /\ []((main_pc \in {"flush", "done"} /\ IsSorted(events)) =>
              event_idx = Len(events) /\ writes_done = Len(events))

\* A finished run over two events with different ticks, addresses and data,
\* the second of them just received.
C13_Witness ==
    /\ main_pc = "done" /\ Len(events) = 2 /\ writes_done = 2
    /\ events[1].clk_tick < events[2].clk_tick
    /\ events[1].addr # events[2].addr /\ events[1].data # events[2].data
    /\ RxAddr = events[2].addr /\ RxData = events[2].data

-----------------------------------------------------------------------------
(* Fixed-point register values (sim_tt6581.cpp copies of the helpers).      *)
(* Frequencies are carried in hundredths of a hertz, Q factors in           *)
(* thousandths.                                                             *)

SAMPLE_RATE_HZ == 50000

\* Faulty variant: the quotient is rounded to nearest.
CalcFcw_Rounded(freq_c) ==
    U16(((freq_c \div 100) * (524288 \div 16) + (SAMPLE_RATE_HZ \div 32))
            \div (SAMPLE_RATE_HZ \div 16))

\* calc_fcw: (uint64_t)freq * 2^19 / 50000, kept to 16 bits.  The cast
\* drops the fraction of freq before the product is formed.  (Product and
\* divisor are both written divided by 16: the quotient is the same and
\* the product stays within 32-bit integers.)
CalcFcw(freq_c) ==
    U16(((freq_c \div 100) * (524288 \div 16)) \div (SAMPLE_RATE_HZ \div 16))

\* get_coeff_f: (int16_t)(2 sin(pi fc / 50000) * 32768), tabulated for the
\* cutoff frequencies the timelines below use.
GetCoeffF(fc) ==
    CASE fc = 600  -> 2470
      [] fc = 1000 -> 4115
      [] fc = 5000 -> 20251

\* get_coeff_q: (int16_t)((1 / q) * 4096)
GetCoeffQ(q_m) == (4096 * 1000) \div q_m

V1_BASE == 0
V3_BASE == 14
FILT_BASE == 21
REG_FREQ_LO == 0
REG_FREQ_HI == 1
REG_CTRL == 4
WAVE_TRI == 16
WAVE_PULSE == 64
FILT_ALL_LP == 57

\* set_voice_freq
VoiceFreqWrites(base, freq_c) ==
    LET fcw == CalcFcw(freq_c)
    IN  << <<U8(base + REG_FREQ_LO), BitAnd(fcw, 255)>>,
           <<U8(base + REG_FREQ_HI), BitAnd(Shr(fcw, 8), 255)>> >>

\* set_control
ControlWrites(base, wave, gate) ==
    << <<U8(base + REG_CTRL), IF gate THEN BitOr(wave, 1) ELSE wave>> >>

\* set_filter
FilterWrites(fe) ==
    LET cf == GetCoeffF(fe.fc)
        cq == GetCoeffQ(fe.q)
    IN  << <<FILT_BASE + 0, BitAnd(cf, 255)>>,
           <<FILT_BASE + 1, BitAnd(Shr(cf, 8), 255)>>,
           <<FILT_BASE + 2, BitAnd(cq, 255)>>,
           <<FILT_BASE + 3, BitAnd(Shr(cq, 8), 255)>>,
           <<FILT_BASE + 4, fe.en_mode>> >>

\* switch (ev.type) of the sample loop
NoteWrites(ev) ==
    CASE ev.type = "GATE_ON" ->
            VoiceFreqWrites(ev.voice, ev.freq) \o ControlWrites(ev.voice, ev.wave, TRUE)
      [] ev.type = "GATE_OFF" -> ControlWrites(ev.voice, ev.wave, FALSE)
      [] ev.type = "FREQ_ONLY" -> VoiceFreqWrites(ev.voice, ev.freq)

\* Ticks of one whole spi_write call: its four tick loops.
SpiWriteTicks(v, div) ==
    16 * (HalfTicks(div) + HalfTicks(div)) + TrailTicks(v, div) + IdleTicks(v)

\* A sequence of spi_write calls run to completion, on the tick state.
RECURSIVE RunWrites(_, _, _, _)
RunWrites(v, s, div, ws) ==
    IF ws = <<>> THEN s
    ELSE CHOOSE r \in {RunWrites(v, m, div, Tail(ws)) :
                            m \in {TickBatch(v, s, SpiWriteTicks(v, div))}} : TRUE

\* The machine after a caller has issued the writes ws.
DoWrites(ws) ==
    \E s \in {RunWrites(variant, TickState, spi_div, ws)} :
        /\ tick_count' = s.tick_count
        /\ sim_time' = s.sim_time
        /\ pdm' = s.pdm
        /\ wave_o' = s.wave_o
        /\ last_cap' = s.last_cap
        /\ tk' = s.tk
        /\ cs_i' = 1 /\ sclk_i' = 0
        /\ mosi_i' = FrameBit(Frame(variant, ws[Len(ws)][1], ws[Len(ws)][2]), 0)
        /\ writes_done' = writes_done + Len(ws)

-----------------------------------------------------------------------------
(* Composed-song run: main() of sim_tt6581.cpp.  Each step is a whole       *)
(* statement of main(), the register writes it makes included.              *)

MAX_SAMPLES == 3
MaxNotes    == 2
MaxFilters  == 1

SongSamples == {0, 1, 2}

\* The note added at insertion position j: add_note / add_arpeggio entries.
NoteTemplate(j) ==
    CASE j % 3 = 1 -> [voice |-> V1_BASE, freq |-> 39200, wave |-> WAVE_PULSE,
                       type |-> "GATE_ON"]
      [] j % 3 = 2 -> [voice |-> V1_BASE, freq |-> 0, wave |-> WAVE_PULSE,
                       type |-> "GATE_OFF"]
      [] OTHER     -> [voice |-> V3_BASE, freq |-> 31113, wave |-> WAVE_TRI,
                       type |-> "FREQ_ONLY"]

NoteEvent(j, smp) ==
    LET t == NoteTemplate(j)
    IN  [sample |-> smp, voice |-> t.voice, freq |-> t.freq, wave |-> t.wave,
         type |-> t.type, id |-> j]

FilterEvent(j, smp) ==
    [sample |-> smp, fc |-> IF j % 2 = 1 THEN 600 ELSE 5000,
     q |-> IF j % 2 = 1 THEN 1000 ELSE 707, en_mode |-> FILT_ALL_LP, id |-> j]

\* Timelines as composed: in insertion order, any sample per entry.
NoteLists ==
    UNION {{[j \in 1..n |-> NoteEvent(j, f[j])] : f \in [1..n -> SongSamples]} :
             n \in 0..MaxNotes}

FilterLists ==
    UNION {{[j \in 1..n |-> FilterEvent(j, f[j])] : f \in [1..n -> SongSamples]} :
             n \in 0..MaxFilters}

Perms(n) == {p \in [1..n -> 1..n] : \A a, b \in 1..n : a # b => p[a] # p[b]}

\* Faulty variant: the timeline is left as composed.
SortOutcomes_Unsorted(seq) == {seq}

\* std::sort with a comparator on .sample only: some permutation ordered by
\* sample; the order of entries with equal sample is unspecified.
SortOutcomes(seq) ==
    {[j \in 1..Len(seq) |-> seq[p[j]]] : p \in
        {q \in Perms(Len(seq)) :
            \A a \in 1..(Len(seq) - 1) : seq[q[a]].sample <= seq[q[a + 1]].sample}}

\* Voice and filter set-up writes before the song: 2 + 3 * 2 + 1 + 5.
SETUP_WRITES == 14

InitSong ==
    /\ InitCommon /\ NoLoop
    /\ variant = "song"
    /\ spi_div = SPI_CLK_DIV_SONG
    /\ song = <<>> /\ filter_song = <<>>
    /\ filt_idx = 0 /\ total_samples = 0
    /\ main_pc = "song_reset"

\* Reset sequence and set-up writes.
SongSetup ==
    /\ main_pc = "song_reset"
    /\ \E s \in {RunWrites(variant,
                             TickBatch(variant, TickState, 2 * ResetTicks(variant)),
                             spi_div, [j \in 1..SETUP_WRITES |-> <<0, 0>>])} :
           /\ tick_count' = s.tick_count
           /\ sim_time' = s.sim_time
           /\ pdm' = s.pdm
           /\ wave_o' = s.wave_o
           /\ last_cap' = s.last_cap
           /\ tk' = s.tk
    /\ rst_ni' = 1
    /\ mosi_i' = FrameBit(Frame(variant, FILT_BASE + 4, FILT_ALL_LP), 0)
    /\ writes_done' = writes_done + SETUP_WRITES
    /\ main_pc' = "song_compose"
    /\ UNCHANGED <<env, got_finish, rd, calc, loadVars, variant, spi_div, cs_i, sclk_i, spi_pc, spi_i, spi_k, wq, tx,
                   rx, w_start, loopVars, songVars, act_time, cap_in>>

\* The add_note / add_arpeggio / add_filter_event calls: both timelines built
\* in insertion order.
SongCompose ==
    /\ main_pc = "song_compose"
    /\ song' \in NoteLists
    /\ filter_song' \in FilterLists
    /\ main_pc' = "song_sort"
    /\ UNCHANGED <<env, got_finish, rd, calc, loadVars, variant, spi_div, pinVars, tickVars, spiVars, loopVars,
                   filt_idx, total_samples, applied, act_time, cap_in>>

\* std::sort(filter_song); std::sort(song);
SongSort ==
    /\ main_pc = "song_sort"
    /\ filter_song' \in SortOutcomes(filter_song)
    /\ song' \in SortOutcomes(song)
    /\ main_pc' = "song_start"
    /\ UNCHANGED <<env, got_finish, rd, calc, loadVars, variant, spi_div, pinVars, tickVars, spiVars, loopVars,
                   filt_idx, total_samples, applied, act_time, cap_in>>

\* g_tick_count = 0; g_pdm_active = true; event_idx = 0; filt_idx = 0;
SongStart ==
    /\ main_pc = "song_start"
    /\ tick_count' = 0
    /\ pdm' = [pdm EXCEPT !.active = TRUE]
    /\ act_time' = sim_time
    /\ event_idx' = 0
    /\ filt_idx' = 0
    /\ main_pc' = "song_loop"
    /\ UNCHANGED <<env, got_finish, tk, rd, calc, loadVars, variant, spi_div, pinVars, wave_o, sim_time, last_cap,
                   spiVars, events, sample_count, next_sample, total_ticks, iter,
                   target, batch_n, song, filter_song, total_samples, applied,
                   cap_in>>

\* while (total_samples < max_samples)
SongLoopTest ==
    /\ main_pc = "song_loop"
    /\ main_pc' = IF total_samples < MAX_SAMPLES THEN "song_notes" ELSE "flush"
    /\ UNCHANGED <<env, got_finish, rd, calc, loadVars, variant, spi_div, pinVars, tickVars, spiVars, loopVars,
                   songVars, act_time, cap_in>>

NoteDue == event_idx < Len(song) /\ song[event_idx + 1].sample <= total_samples
FilterDue ==
    filt_idx < Len(filter_song) /\ filter_song[filt_idx + 1].sample <= total_samples

\* One pass of the note loop: the event's register writes, event_idx++.
SongNote ==
    /\ main_pc = "song_notes"
    /\ NoteDue
    /\ DoWrites(NoteWrites(song[event_idx + 1]))
    /\ applied' = Append(applied, [line |-> "note", id |-> song[event_idx + 1].id,
                                   sample |-> song[event_idx + 1].sample,
                                   at |-> total_samples])
    /\ event_idx' = event_idx + 1
    /\ UNCHANGED <<env, got_finish, rd, calc, loadVars, variant, main_pc, spi_div, rst_ni, spi_pc, spi_i, spi_k, wq,
                   tx, rx, w_start, events, sample_count, next_sample,
                   total_ticks, iter, target, batch_n, song, filter_song, filt_idx,
                   total_samples, act_time, cap_in>>

SongNotesDone ==
    /\ main_pc = "song_notes"
    /\ ~NoteDue
    /\ main_pc' = "song_filters"
    /\ UNCHANGED <<env, got_finish, rd, calc, loadVars, variant, spi_div, pinVars, tickVars, spiVars, loopVars,
                   songVars, act_time, cap_in>>

\* One pass of the filter loop: set_filter, filt_idx++.
SongFilter ==
    /\ main_pc = "song_filters"
    /\ FilterDue
    /\ DoWrites(FilterWrites(filter_song[filt_idx + 1]))
    /\ applied' = Append(applied, [line |-> "filter", id |-> filter_song[filt_idx + 1].id,
                                   sample |-> filter_song[filt_idx + 1].sample,
                                   at |-> total_samples])
    /\ filt_idx' = filt_idx + 1
    /\ UNCHANGED <<env, got_finish, rd, calc, loadVars, variant, main_pc, spi_div, rst_ni, spi_pc, spi_i, spi_k, wq,
                   tx, rx, w_start, loopVars, song, filter_song, total_samples,
                   act_time, cap_in>>

\* Faulty variant: the batch is one tick short of the sample period.
SongAdvance_ShortBatch ==
    /\ main_pc = "song_filters"
    /\ ~FilterDue
    /\ \E s \in {TickBatch(variant, TickState, TICKS_PER_SAMPLE - 1)} :
           /\ tick_count' = s.tick_count
           /\ sim_time' = s.sim_time
           /\ pdm' = s.pdm
           /\ wave_o' = s.wave_o
           /\ last_cap' = s.last_cap
           /\ tk' = s.tk
    /\ total_samples' = total_samples + 1
    /\ main_pc' = "song_loop"
    /\ UNCHANGED <<env, got_finish, rd, calc, loadVars, variant, spi_div, pinVars, spiVars, loopVars, song,
                   filter_song, filt_idx, applied, act_time, cap_in>>

\* tick_batch(TICKS_PER_SAMPLE); total_samples++;
SongAdvance ==
    /\ main_pc = "song_filters"
    /\ ~FilterDue
    /\ \E s \in {TickBatch(variant, TickState, TICKS_PER_SAMPLE)} :
           /\ tick_count' = s.tick_count
           /\ sim_time' = s.sim_time
           /\ pdm' = s.pdm
           /\ wave_o' = s.wave_o
           /\ last_cap' = s.last_cap
           /\ tk' = s.tk
    /\ total_samples' = total_samples + 1
    /\ main_pc' = "song_loop"
    /\ UNCHANGED <<env, got_finish, rd, calc, loadVars, variant, spi_div, pinVars, spiVars, loopVars, song,
                   filter_song, filt_idx, applied, act_time, cap_in>>

NextSong ==
    \/ SongSetup \/ SongCompose \/ SongSort \/ SongStart \/ SongLoopTest \/ SongNote
    \/ SongNotesDone \/ SongFilter \/ SongAdvance \/ FlushRun

SpecSong == InitSong /\ [][NextSong]_vars

-----------------------------------------------------------------------------
(* Claims about the composed-song run *)

\* C9: across the note and the filter timeline, events are applied in
\* non-decreasing order of their scheduled sample over the whole run, and of
\* a note event and a filter event scheduled for the same sample the note
\* event (the timeline processed first) is applied first.
C9_CrossTimelineOrder ==
    \A a, b \in 1..Len(applied) :
        a < b =>
            /\ applied[a].sample <= applied[b].sample
            /\ applied[a].sample = applied[b].sample =>
                  ~(applied[a].line = "filter" /\ applied[b].line = "note")

\* A note of an earlier sample, then a note and a filter event sharing a
\* later sample, all applied, from a note timeline composed out of order.
C9_Witness ==
    /\ main_pc = "done"
    /\ \E j \in 1..(Len(song) - 1) : song[j].id > song[j + 1].id
    /\ \E a, b, c \in 1..Len(applied) :
          /\ a < b /\ b < c
          /\ applied[a].sample < applied[b].sample
          /\ applied[b].line = "note" /\ applied[c].line = "filter"
          /\ applied[b].sample = applied[c].sample

\* C10 as stated: within one timeline, events of equal sample are dispatched
\* in their insertion order (the sort is stable), so of two entries of the
\* same timeline with the same sample the one inserted first is applied first.
C10_AsClaimed ==
    \A a, b \in 1..Len(applied) :
        (a < b /\ applied[a].line = applied[b].line
               /\ applied[a].sample = applied[b].sample) =>
            applied[a].id < applied[b].id

-----------------------------------------------------------------------------
(* Stimulus loader: load_stimulus of sim_sid_player.cpp and                *)
(* sim_tt6581_player.cpp.  A line of the file is a sequence of one-        *)
(* character strings; the loader sees the text only.                       *)

MaxLines      == 2      \* lines per file in loader-only runs
MaxStartLines == 1      \* lines per file in runs that go on into main()

DecDigits == <<"0", "1", "2", "3", "4", "5", "6", "7", "8", "9">>
HexUpper  == DecDigits \o <<"A", "B", "C", "D", "E", "F">>
HexLower  == DecDigits \o <<"a", "b", "c", "d", "e", "f">>

\* std::isspace on the characters that occur in a line
IsSpace(c) == c = " " \/ c = "\t"

\* value of a digit character as strtoul / num_get read it, -1 if it is none
DigitVal(c) ==
    IF \E k \in 1..16 : HexUpper[k] = c
    THEN (CHOOSE k \in 1..16 : HexUpper[k] = c) - 1
    ELSE IF \E k \in 1..16 : HexLower[k] = c
         THEN (CHOOSE k \in 1..16 : HexLower[k] = c) - 1
         ELSE -1

RECURSIVE SkipWs(_, _)
SkipWs(line, p) ==
    IF p <= Len(line) /\ IsSpace(line[p]) THEN SkipWs(line, p + 1) ELSE p

RECURSIVE DigitsEnd(_, _, _)
DigitsEnd(line, p, base) ==
    IF p <= Len(line) /\ DigitVal(line[p]) \in 0..(base - 1)
    THEN DigitsEnd(line, p + 1, base)
    ELSE p

RECURSIVE TokenEnd(_, _)
TokenEnd(line, p) ==
    IF p <= Len(line) /\ ~IsSpace(line[p]) THEN TokenEnd(line, p + 1) ELSE p

RECURSIVE NumVal(_, _)
NumVal(ds, base) ==
    IF ds = <<>> THEN 0
    ELSE NumVal(SubSeq(ds, 1, Len(ds) - 1), base) * base + DigitVal(ds[Len(ds)])

\* iss >> ev.clk_tick : leading white space is skipped, then the longest run
\* of decimal digits is converted; with no digit the extraction fails and
\* the stream stays failed (the value left in clk_tick is never stored,
\* because the token extractions that follow fail as well).
ExtractTick(line) ==
    LET p == SkipWs(line, 1)
        e == DigitsEnd(line, p, 10)
    IN  IF e = p
        THEN [fail |-> TRUE, pos |-> p, val |-> 0]
        ELSE [fail |-> FALSE, pos |-> e, val |-> NumVal(SubSeq(line, p, e - 1), 10)]

\* iss >> token : on a failed stream, or with nothing but white space left,
\* the extraction fails and token keeps the value it had.
ExtractToken(line, failed, pos, old) ==
    LET p == SkipWs(line, pos)
        e == TokenEnd(line, p)
    IN  IF failed \/ e = p
        THEN [fail |-> TRUE, pos |-> p, tok |-> old]
        ELSE [fail |-> FALSE, pos |-> e, tok |-> SubSeq(line, p, e - 1)]

\* Faulty variant: the 0x prefix is not recognised.
Stoul16_NoPrefix(tok) ==
    LET e == DigitsEnd(tok, 1, 16)
    IN  IF e = 1 THEN -1 ELSE NumVal(SubSeq(tok, 1, e - 1), 16)

\* std::stoul(token, nullptr, 16): an optional 0x / 0X prefix (taken only
\* when a hex digit follows it), then the longest run of hex digits; what
\* follows the run is ignored.  With no digit std::invalid_argument is
\* thrown, shown as -1.  (Tokens carry no sign and stay below 2^64 here.)
Stoul16(tok) ==
    LET body == IF /\ Len(tok) >= 3 /\ tok[1] = "0" /\ tok[2] \in {"x", "X"}
                   /\ DigitVal(tok[3]) >= 0
                THEN SubSeq(tok, 3, Len(tok))
                ELSE tok
        e == DigitsEnd(body, 1, 16)
    IN  IF e = 1 THEN -1 ELSE NumVal(SubSeq(body, 1, e - 1), 16)

\* Body of the getline loop for a line that is not skipped: thrown tells
\* that std::stoul threw; otherwise ev is the event pushed back.
\* unsigned addr = stoul(..); ev.addr = addr keeps the low 8 bits (the
\* low 8 bits of the low 32 bits).
ParseLine(line) ==
    LET t  == ExtractTick(line)
        a  == ExtractToken(line, t.fail, t.pos, <<>>)
        av == Stoul16(a.tok)
        d  == ExtractToken(line, a.fail, a.pos, a.tok)
        dv == Stoul16(d.tok)
    IN  IF av < 0 \/ dv < 0
        THEN [thrown |-> TRUE,
              ev |-> [clk_tick |-> 0, addr |-> 0, data |-> 0]]
        ELSE [thrown |-> FALSE,
              ev |-> [clk_tick |-> t.val, addr |-> U8(av), data |-> U8(dv)]]

\* if (line.empty() || line[0] == '#') continue;
SkippedLine(line) == line = <<>> \/ line[1] = "#"

(* The files the loader is run on.  Each line is written from a source     *)
(* entry; stim_src keeps the entries, stim.lines the text the loader reads. *)

RECURSIVE DecText(_)
DecText(n) ==
    IF n < 10 THEN <<DecDigits[n + 1]>>
    ELSE DecText(n \div 10) \o <<DecDigits[(n % 10) + 1]>>

RECURSIVE HexDigitsOf(_)
HexDigitsOf(n) ==
    IF n < 16 THEN <<HexUpper[n + 1]>>
    ELSE HexDigitsOf(n \div 16) \o <<HexUpper[(n % 16) + 1]>>

\* format 0xNN: at least two hex digits after the prefix
HexText(n) ==
    <<"0", "x">> \o (IF n < 16 THEN <<"0">> ELSE <<>>) \o HexDigitsOf(n)

LoaderTicks == {7, 305}
LoaderAddrs == {2, 24}
LoaderDatas == {15, 171}

LineKinds == {"rec", "blank", "comment", "spaces", "no_data", "no_addr",
              "non_hex", "wide"}

\* One line of each malformed or skipped kind, and every well-formed record.
LineSources ==
    [kind : {"rec"}, tick : LoaderTicks, addr : LoaderAddrs, data : LoaderDatas]
    \cup [kind : LineKinds \ {"rec"}, tick : {7}, addr : {24}, data : {15}]

\* the address value a line spells out
WrittenAddr(src) == IF src.kind = "wide" THEN 256 + src.addr ELSE src.addr

Sp == <<" ">>

LineText(src) ==
    CASE src.kind = "rec" ->
            DecText(src.tick) \o Sp \o HexText(src.addr) \o Sp \o HexText(src.data)
      [] src.kind = "blank" -> <<>>
      [] src.kind = "comment" ->
            <<"#">> \o DecText(src.tick) \o Sp \o HexText(src.addr) \o Sp
                    \o HexText(src.data)
      [] src.kind = "spaces" -> Sp \o Sp
      [] src.kind = "no_data" -> DecText(src.tick) \o Sp \o HexText(src.addr)
      [] src.kind = "no_addr" -> DecText(src.tick)
      [] src.kind = "non_hex" ->
            DecText(src.tick) \o Sp \o <<"z", "z">> \o Sp \o HexText(src.data)
      [] src.kind = "wide" ->
            DecText(src.tick) \o Sp \o HexText(WrittenAddr(src)) \o Sp
                              \o HexText(src.data)

FileText(srcs) == [j \in 1..Len(srcs) |-> LineText(srcs[j])]

SourceLists(S, n) == UNION {[1..k -> S] : k \in 0..n}

WellFormed(srcs) ==
    \A j \in 1..Len(srcs) : srcs[j].kind \in {"rec", "blank", "comment"}

\* std::ifstream file(path):  a file that opens, or one that does not
InitFile(S, n) ==
    /\ stim_src \in SourceLists(S, n)
    /\ \/ stim = [exists |-> TRUE, lines |-> FileText(stim_src)]
       \/ stim_src = <<>> /\ stim = [exists |-> FALSE, lines |-> <<>>]
    /\ line_no = 0 /\ diag = <<>> /\ out_open = FALSE /\ bad_access = FALSE

InitLoader ==
    /\ InitEngine /\ NoLoop /\ NoSong /\ NoCalc
    /\ variant \in Players
    /\ spi_div = SPI_CLK_DIV_PLAYER
    /\ InitFile(LineSources, MaxLines)
    /\ main_pc = "load_open"

\* if (!file.is_open()) { std::cerr << ...; return events; }   (sid player;
\* the sim_common.h based player has no such test and goes on to getline)
LoadOpen ==
    /\ main_pc = "load_open"
    /\ IF variant = "sid" /\ ~stim.exists
       THEN /\ diag' = Append(diag, "Error: Cannot open stimulus file")
            /\ main_pc' = "loaded"
       ELSE /\ diag' = diag
            /\ main_pc' = "load_line"
    /\ UNCHANGED <<env, got_finish, rd, calc, variant, spi_div, pinVars, tickVars, spiVars, loopVars,
                   songVars, act_time, cap_in, stim, stim_src, line_no,
                   out_open, bad_access>>

\* while (std::getline(file, line)) { ... events.push_back(ev); }
\* An exception thrown by std::stoul is caught nowhere: std::terminate.
LoadLine ==
    /\ main_pc = "load_line"
    /\ stim.exists /\ line_no < Len(stim.lines)
    /\ line_no' = line_no + 1
    /\ \E r \in {IF SkippedLine(stim.lines[line_no + 1])
                 THEN [thrown |-> FALSE, skip |-> TRUE,
                       ev |-> [clk_tick |-> 0, addr |-> 0, data |-> 0]]
                 ELSE [skip |-> FALSE] @@ ParseLine(stim.lines[line_no + 1])} :
          /\ events' = IF r.skip \/ r.thrown THEN events ELSE Append(events, r.ev)
          /\ main_pc' = IF ~r.skip /\ r.thrown THEN "crashed" ELSE "load_line"
    /\ UNCHANGED <<env, got_finish, rd, calc, variant, spi_div, pinVars, tickVars, spiVars, event_idx,
                   sample_count, next_sample, total_ticks, target, batch_n,
                   iter, songVars, act_time, cap_in, stim, stim_src, diag,
                   out_open, bad_access>>

\* getline fails (end of file, or a stream that never opened): return events;
LoadReturn ==
    /\ main_pc = "load_line"
    /\ ~stim.exists \/ line_no = Len(stim.lines)
    /\ main_pc' = "loaded"
    /\ UNCHANGED <<env, got_finish, rd, calc, variant, spi_div, pinVars, tickVars, spiVars, loopVars,
                   songVars, act_time, cap_in, loadVars>>

NextLoader == LoadOpen \/ LoadLine \/ LoadReturn

SpecLoader == InitLoader /\ [][NextLoader]_vars

(* main() of the two players between load_stimulus and the reset *)

StartSources == {s \in LineSources : s.kind \in {"rec", "comment"}}

\* What reading events.back() of an empty vector may yield as a tick, when
\* the read does not fault.
GarbageTicks == {0, 7}

InitStart ==
    /\ InitEngine /\ NoLoop /\ NoSong /\ NoCalc
    /\ variant \in Players
    /\ spi_div = SPI_CLK_DIV_PLAYER
    /\ InitFile(StartSources, MaxStartLines)
    /\ main_pc = "load_open"

\* sid player: if (events.empty()) { std::cerr << ...; return 1; }
\* sim_common.h based player: prints the count and goes on.
CheckLoaded ==
    /\ main_pc = "loaded"
    /\ IF variant = "sid" /\ events = <<>>
       THEN /\ diag' = Append(diag, "No stimulus events loaded!")
            /\ main_pc' = "exit1"
       ELSE /\ diag' = diag
            /\ main_pc' = "open_out"
    /\ UNCHANGED <<env, got_finish, rd, calc, variant, spi_div, pinVars, tickVars, spiVars, loopVars,
                   songVars, act_time, cap_in, stim, stim_src, line_no,
                   out_open, bad_access>>

\* pdm.open("tmp/pdm_out.bin") / g_pdm_file.open("pdm_output.bin", ...)
OpenOutput ==
    /\ main_pc = "open_out"
    /\ out_open' = TRUE
    /\ main_pc' = "duration"
    /\ UNCHANGED <<env, got_finish, rd, calc, variant, spi_div, pinVars, tickVars, spiVars, loopVars,
                   songVars, act_time, cap_in, stim, stim_src, line_no,
                   diag, bad_access>>

\* last_event_tick = events.back().clk_tick; total_ticks = last_event_tick + tail.
\* back() of an empty vector is undefined: the read faults, or yields some
\* value.
ComputeTotal ==
    /\ main_pc = "duration"
    /\ IF events # <<>>
       THEN /\ total_ticks' = events[Len(events)].clk_tick + TAIL_TICKS
            /\ main_pc' = "reset0"
            /\ bad_access' = bad_access
       ELSE /\ bad_access' = TRUE
            /\ \/ main_pc' = "crashed" /\ total_ticks' = total_ticks
               \/ \E g \in GarbageTicks :
                     total_ticks' = g + TAIL_TICKS /\ main_pc' = "reset0"
    /\ UNCHANGED <<env, got_finish, rd, calc, variant, spi_div, pinVars, tickVars, spiVars, events,
                   event_idx, sample_count, next_sample, target, batch_n, iter,
                   songVars, act_time, cap_in, stim, stim_src, line_no, diag,
                   out_open>>

NextStart == NextLoader \/ CheckLoaded \/ OpenOutput \/ ComputeTotal \/ NextPlayer

SpecStart == InitStart /\ [][NextStart]_vars

-----------------------------------------------------------------------------
(* Loader and start-up properties *)

\* C14 (as claimed): when the stimulus file cannot be opened, the player
\* reports the error and ends before any clock tick: no reset tick, no SPI
\* write, no capture output, and control never goes past the load without
\* a message on std::cerr.
C14_AsClaimed ==
    ~stim.exists =>
        /\ tick_count = 0 /\ sim_time = 0 /\ writes_done = 0
        /\ ~out_open /\ pdm.file = <<>>
        /\ main_pc \in {"load_open", "load_line", "loaded", "exit1"}
        /\ main_pc \in {"loaded", "exit1"} => diag # <<>>

\* C15 (as claimed): when the loader has returned no event, the caller ends
\* the run at its empty test; the run duration is never computed from an
\* empty list and back() is never evaluated on one.
C15_AsClaimed ==
    /\ ~bad_access
    /\ (events = <<>> /\ main_pc \notin {"load_open", "load_line", "loaded"})
           => main_pc = "exit1"

Unskipped(srcs) == SelectSeq(srcs, LAMBDA s : s.kind \notin {"blank", "comment"})

\* C16 (as claimed): on a malformed line the loader neither terminates
\* abnormally nor, without a diagnostic, stores an address or data byte
\* that differs from the value the line spells out.
C16_AsClaimed ==
    /\ main_pc # "crashed"
    /\ LET st == Unskipped(SubSeq(stim_src, 1, line_no))
       IN  (diag = <<>> /\ Len(st) = Len(events)) =>
               \A j \in 1..Len(st) :
                   st[j].kind \in {"rec", "wide"} =>
                       /\ events[j].addr = WrittenAddr(st[j])
                       /\ events[j].data = st[j].data

RECURSIVE RecordsOf(_)
RecordsOf(srcs) ==
    IF srcs = <<>> THEN <<>>
    ELSE (IF Head(srcs).kind = "rec"
          THEN <<[clk_tick |-> Head(srcs).tick, addr |-> Head(srcs).addr,
                  data |-> Head(srcs).data]>>
          ELSE <<>>) \o RecordsOf(Tail(srcs))

\* C17: for a well-formed file the loader never throws, and after every
\* line read the events are exactly the records of the lines read so far
\* that are neither empty nor comments: one event per such line, in file
\* order, with the line's decimal tick and hex address and data; the
\* loader returns only after the last line.
C17_FileOrder ==
    (stim.exists /\ WellFormed(stim_src)) =>
        /\ main_pc # "crashed"
        /\ events = RecordsOf(SubSeq(stim_src, 1, line_no))
        /\ main_pc = "loaded" => line_no = Len(stim_src)

C17_Witness ==
    /\ main_pc = "loaded" /\ stim.exists /\ WellFormed(stim_src)
    /\ Len(events) = 2
    /\ events[1].clk_tick > events[2].clk_tick
    /\ events[1].addr # events[2].addr /\ events[1].data # events[2].data

-----------------------------------------------------------------------------
(* Coefficient calls on their own: set_voice_freq / calc_fcw and           *)
(* set_filter / get_coeff_q, applied to one argument each.                  *)

MaxHz == 6300       \* whole frequencies 0..MaxHz Hz are tried

\* the note frequencies of sim_tt6581.cpp, in hundredths of a hertz
NoteFreqs ==
    {6541, 7342, 7778, 8731, 9800, 10383, 11654, 12347,
     13081, 14683, 15556, 17461, 19600, 20765, 23308, 24694,
     26163, 29366, 31113, 34923, 39200, 41530, 46616, 49388,
     52325, 58733, 62225, 78399}

\* fractional frequencies beyond the 16-bit range of the control word
HighFreqs == {625050, 700025}

FreqInputs == {100 * f : f \in 0..MaxHz} \cup NoteFreqs \cup HighFreqs

\* the Q factors of sim_tt6581.cpp, in thousandths
QInputs == {707, 800, 900, 1000, 1200, 1500, 2000, 2500}

CutoffInputs == {600, 1000, 5000}

InitCoeff ==
    /\ InitEngine /\ NoLoop /\ NoSong /\ NoLoad
    /\ variant = "song" /\ spi_div = SPI_CLK_DIV_SONG
    /\ main_pc = "coeff"
    /\ \/ \E b \in {V1_BASE, V3_BASE}, f \in FreqInputs :
             calc = [fn |-> "voice", base |-> b, freq |-> f, fc |-> 0, q |-> 0,
                     out |-> 0, writes |-> <<>>, done |-> FALSE]
       \/ \E c \in CutoffInputs, qq \in QInputs :
             calc = [fn |-> "filter", base |-> FILT_BASE, freq |-> 0, fc |-> c,
                     q |-> qq, out |-> 0, writes |-> <<>>, done |-> FALSE]

\* set_voice_freq: fcw = calc_fcw(freq); FREQ_LO and FREQ_HI writes
SetVoiceFreq ==
    /\ calc.fn = "voice" /\ ~calc.done
    /\ calc' = [calc EXCEPT !.out = CalcFcw(calc.freq),
                            !.writes = VoiceFreqWrites(calc.base, calc.freq),
                            !.done = TRUE]
    /\ UNCHANGED <<env, got_finish, rd, variant, main_pc, spi_div, pinVars, tickVars, spiVars,
                   loopVars, songVars, act_time, cap_in, loadVars>>

\* set_filter: cq = get_coeff_q(q); the five filter register writes
SetFilter ==
    /\ calc.fn = "filter" /\ ~calc.done
    /\ calc' = [calc EXCEPT !.out = GetCoeffQ(calc.q),
                            !.writes = FilterWrites([fc |-> calc.fc, q |-> calc.q,
                                                     en_mode |-> FILT_ALL_LP]),
                            !.done = TRUE]
    /\ UNCHANGED <<env, got_finish, rd, variant, main_pc, spi_div, pinVars, tickVars, spiVars,
                   loopVars, songVars, act_time, cap_in, loadVars>>

NextCoeff == SetVoiceFreq \/ SetFilter

SpecCoeff == InitCoeff /\ [][NextCoeff]_vars

\* floor(f * 2^19 / 50000) for f = freq_c / 100, fraction included, mod 2^16.
\* 2^19 / (100 * 50000) = 8192 / 78125; the quotient is formed in two parts.
FloorFcw(freq_c) ==
    LET den == (100 * SAMPLE_RATE_HZ) \div 64
        num == 524288 \div 64
    IN  U16((freq_c \div den) * num + ((freq_c % den) * num) \div den)

\* C18 (as claimed): for every frequency tried, fractional ones included,
\* calc_fcw returns floor(f * 2^19 / 50000) mod 2^16.
C18_AsClaimed ==
    (calc.fn = "voice" /\ calc.done) => calc.out = FloorFcw(calc.freq)

\* first whole frequency whose control word no longer fits 16 bits
NoWrapHz == (4096 * SAMPLE_RATE_HZ) \div 32768

\* C19: for a whole frequency f with 0 <= f < 6250 the control word r is
\* the floor of f * 2^19 / 50000 (r * 50000 <= f * 2^19 < (r + 1) * 50000,
\* both sides written divided by 16), it is below 2^16, and set_voice_freq
\* asks for FREQ_LO and FREQ_HI writes whose bytes give hi * 256 + lo = r.
C19_IntegerFcw ==
    (calc.fn = "voice" /\ calc.done /\ calc.freq % 100 = 0
        /\ calc.freq \div 100 < NoWrapHz) =>
        LET f == calc.freq \div 100
            r == calc.out
        IN  /\ r \in 0..65535
            /\ r * 3125 <= f * 32768 /\ f * 32768 < (r + 1) * 3125
            /\ Len(calc.writes) = 2
            /\ calc.writes[1][1] = calc.base + REG_FREQ_LO
            /\ calc.writes[2][1] = calc.base + REG_FREQ_HI
            /\ calc.writes[1][2] \in 0..255 /\ calc.writes[2][2] \in 0..255
            /\ calc.writes[2][2] * 256 + calc.writes[1][2] = r

C19_Witness ==
    /\ calc.fn = "voice" /\ calc.done /\ calc.freq = 44000
    /\ calc.out = 4613
    /\ calc.writes[1][2] = 5 /\ calc.writes[2][2] = 18

\* round(4096 / q) for q = q_m / 1000, halves upward
RoundQ(q_m) == (2 * 4096 * 1000 + q_m) \div (2 * q_m)

\* C20 (as claimed): for every Q factor tried get_coeff_q returns
\* round(4096 / q), the nearest integer.
C20_AsClaimed ==
    (calc.fn = "filter" /\ calc.done) => calc.out = RoundQ(calc.q)
-----------------------------------------------------------------------------
(* Per-bit line discipline of the encoders *)

\* Ticks executed since the current write was entered.
SinceEntry == Ticks - w_start

C22_AsClaimed ==
    /\ [][(cs_i = 0 /\ cs_i' = 1) =>
              SinceEntry = 16 * 2 * (spi_div \div 2) + (spi_div \div 2)]_vars
    /\ [][(spi_pc # "idle" /\ spi_pc' = "idle") =>
              SinceEntry = 16 * 2 * (spi_div \div 2) + (spi_div \div 2) + 20]_vars
-----------------------------------------------------------------------------
(* The read variant of the conformance test: check_read *)

MaxReads == 2

\* check_read(addr, expected_val) calls of main, and one address above 0x7F
ReadSet == {<<2, 85>>, <<5, 153>>, <<130, 0>>}

InitRead ==
    /\ InitCommon /\ NoLoop /\ NoSong
    /\ variant = "spi"
    /\ spi_div = SPI_RATIO
    /\ main_pc = "reads"

\* check_read(ctx, top, addr, expected_val): reg_rdata_i = expected_val and
\* the transfer that follows.
IssueRead ==
    /\ main_pc = "reads"
    /\ SpiIdle /\ wq = <<>>
    /\ writes_done < MaxReads
    /\ \E r \in ReadSet : wq' = <<r>>
    /\ rd' = [op |-> "read", data_in |-> 0, seen |-> <<>>, result |-> -1]
    /\ UNCHANGED <<env, got_finish, calc, loadVars, variant, main_pc, spi_div, pinVars, tickVars,
                   spi_pc, spi_i, spi_k, tx, rx, writes_done, w_start, loopVars,
                   songVars, act_time, cap_in>>

NextRead == IssueRead \/ SpiStep

SpecRead == InitRead /\ [][NextRead]_vars

\* The 16 values a read drives: flag 0, address bits 6..0, eight zeros.
ExpectedReadFrame(addr) ==
    [j \in 1..16 |-> IF j = 1 \/ j > 8 THEN 0 ELSE (addr \div Pow2(8 - j)) % 2]

\* C23: check_read drives 0, then address bits 6..0 most-significant first,
\* then eight further bits, every one of the 16 with SPI_RATIO/2 ticks
\* before and SPI_RATIO/2 ticks after the rising sclk_i edge; bit i of the
\* byte it gets back is the miso_o value sampled for response bit 8 - i, so
\* the byte is the sampled sequence read most-significant first.
C23_ReadBack ==
    /\ [](rd.op = "read" /\ ~SpiIdle =>
             /\ \A j \in 1..Len(tx) : tx[j] = ExpectedReadFrame(CurWrite[1])[j]
             /\ spi_pc \in {"trail", "wait"} =>
                   /\ Len(tx) = 16 /\ Len(rd.seen) = 8
                   /\ rd.result \in 0..255
                   /\ \A i \in 0..7 : (rd.result \div Pow2(i)) % 2 = rd.seen[8 - i]
                   /\ rd.result = RxValue(rd.seen))
    /\ [][(rd.op = "read" /\ sclk_i = 0 /\ sclk_i' = 1) =>
              SinceEntry = Len(rx) * SPI_RATIO + (SPI_RATIO \div 2)]_vars
    /\ [][(rd.op = "read" /\ sclk_i = 1 /\ sclk_i' = 0) =>
              SinceEntry = Len(rx) * SPI_RATIO]_vars
    /\ [][(rd.op = "read" /\ Len(rd.seen') = Len(rd.seen) + 1) =>
              sclk_i = 1 /\ sclk_i' = 0 /\ Len(rx) = 8 + Len(rd.seen')]_vars

C23_Witness ==
    /\ rd.op = "read" /\ spi_pc = "wait" /\ CurWrite = <<2, 85>>
    /\ rd.seen = <<0, 1, 0, 1, 0, 1, 0, 1>> /\ rd.result = 85
    /\ tx = <<0, 0,0,0,0,0,1,0, 0,0,0,0,0,0,0,0>>

-----------------------------------------------------------------------------
(* Meaning of the clock divider *)

C25_TimeAndTicks ==
    /\ [](sim_time = CLK_PERIOD_NS * tk.ticks)
    /\ [](tk.evals = 2 * tk.ticks)
    /\ [](tk.ticks > 0 => tk.edges = <<0, 1>>)
    /\ [](2 * (CLK_PERIOD_NS \div 2) = CLK_PERIOD_NS)
    /\ [][total_samples' = total_samples + 1 =>
              tk'.ticks = tk.ticks + TICKS_PER_SAMPLE]_vars
    /\ [][writes_done' # writes_done =>
              tk'.ticks = tk.ticks
                  + (IF main_pc = "song_reset" THEN 2 * ResetTicks(variant) ELSE 0)
                  + (writes_done' - writes_done) * WriteDuration(spi_div)]_vars
    /\ [][tk'.ticks >= tk.ticks]_vars

\* A song run in which setup writes, a note and two sample periods have run.
C25_Witness ==
    /\ variant = "song"
    /\ total_samples = 2
    /\ Len(applied) >= 1
    /\ tk.ticks >= 2 * TICKS_PER_SAMPLE + WriteDuration(spi_div)
    /\ sim_time = CLK_PERIOD_NS * tk.ticks

(***************************************************************************)
(* C26: the tick counter over a whole run.                                 *)
(***************************************************************************)

\* C26: the tick counter that drives capture and scheduling never decreases
\* over the run, and every step adds to it exactly the number of ticks the
\* step executed.
C26_AsClaimed ==
    /\ [][tick_count' >= tick_count]_vars
    /\ [][tick_count' - tick_count = tk'.ticks - tk.ticks]_vars

(***************************************************************************)
(* C27: the device model signals termination during a player run.          *)
(***************************************************************************)

\* The device model signals termination while it is being evaluated, at
\* any point between the first tick and the end of the simulation loop.
DeviceFinish ==
    /\ ~got_finish
    /\ tk.evals > 0
    /\ main_pc \notin {"flush", "done"}
    /\ got_finish' = TRUE
    /\ UNCHANGED <<variant, main_pc, spi_div, pinVars, tickVars, spiVars, loopVars,
                   songVars, act_time, cap_in, loadVars, calc, rd, env>>

\* The stimulus players with a device that may signal termination: the
\* loops of main test only the tick counter and the event index.
NextFinish == NextPlayer \/ DeviceFinish

SpecFinish == InitPlayer /\ [][NextFinish]_vars

\* C27: once the device model has signalled termination no further tick is
\* executed and no further register write is issued, and the capture output
\* collected so far is flushed.
C27_AsClaimed ==
    /\ [][got_finish => /\ tk'.ticks = tk.ticks
                        /\ writes_done' = writes_done
                        /\ spi_pc' = spi_pc]_vars
    /\ [](got_finish /\ main_pc = "done" => pdm.closed)

(***************************************************************************)
(* Bursts: stimulus-player runs over lists of up to MaxBurst events whose  *)
(* ticks are closer together than one register write, exactly one write    *)
(* apart, and in any order.                                                *)
(***************************************************************************)

MaxBurst == 3

\* Ticks of the events of a burst: the end of reset, four ticks later, one
\* write duration after the end of reset less four ticks and exactly, and
\* two write durations after it.
BurstTicks(v) ==
    {2 * ResetTicks(v),
     2 * ResetTicks(v) + 4,
     2 * ResetTicks(v) + WriteDuration(SPI_CLK_DIV_PLAYER) - 4,
     2 * ResetTicks(v) + WriteDuration(SPI_CLK_DIV_PLAYER),
     2 * ResetTicks(v) + 2 * WriteDuration(SPI_CLK_DIV_PLAYER)}

BurstEvent(v) == {[clk_tick |-> t, addr |-> 2, data |-> 255] : t \in BurstTicks(v)}

\* load_stimulus keeps file order; nothing sorts the list.
BurstLists(v) == UNION {[1..n -> BurstEvent(v)] : n \in 1..MaxBurst}

InitBurst ==
    /\ InitCommon /\ NoSong
    /\ variant \in Players
    /\ spi_div = SPI_CLK_DIV_PLAYER
    /\ events \in BurstLists(variant)
    /\ total_ticks = events[Len(events)].clk_tick + TAIL_TICKS
    /\ event_idx = 0 /\ sample_count = 0 /\ next_sample = 0
    /\ target = 0 /\ batch_n = 0
    /\ iter = [n |-> 0, at |-> 0]
    /\ main_pc = "reset0"

SpecBurst == InitBurst /\ [][NextPlayer]_vars

(***************************************************************************)
(* C28: the tick counter at the end of a stimulus-player run.              *)
(***************************************************************************)

\* The tick at which the latest register write returned.
LastWriteEnd == w_start + WriteDuration(spi_div)

\* A tick executed by the advance step of the simulation loop.
AdvanceTick == main_pc \in {"batch", "single"} /\ tick_count' = tick_count + 1

\* C28 as stated: the run ends with the tick counter equal to total_ticks
\* whenever the last register write returned before the budget; no tick of
\* the advance step takes the counter past total_ticks; every tick that
\* takes the counter past total_ticks is executed inside a register write.
C28_AsClaimed ==
    /\ [](main_pc \in {"flush", "done"}
              /\ (writes_done = 0 \/ LastWriteEnd < total_ticks)
          => tick_count = total_ticks)
    /\ [][AdvanceTick => tick_count' <= total_ticks]_vars
    /\ [][tick_count' > tick_count /\ tick_count' > total_ticks
              => spi_pc # "idle"]_vars

\* C28, amended: the run ends with the tick counter equal to total_ticks
\* whenever the last register write returned strictly before the budget;
\* a batch of the advance step never takes the counter past total_ticks;
\* when the last register write returns at or after total_ticks, the
\* single-tick fallback of the advance step executes one more tick and the
\* run ends one tick after the write; no other tick outside a register write
\* takes the counter past total_ticks.
C28_BudgetEnd ==
    /\ [](main_pc \in {"flush", "done"}
              /\ (writes_done = 0 \/ LastWriteEnd < total_ticks)
          => tick_count = total_ticks)
    /\ [](main_pc \in {"flush", "done"}
              /\ writes_done > 0 /\ LastWriteEnd >= total_ticks
          => tick_count = LastWriteEnd + 1)
    /\ [][AdvanceTick /\ main_pc = "batch" => tick_count' <= total_ticks]_vars
    /\ [][AdvanceTick /\ tick_count' > total_ticks
              => /\ main_pc = "single"
                 /\ writes_done > 0
                 /\ tick_count = LastWriteEnd]_vars
    /\ [][tick_count' > tick_count /\ tick_count' > total_ticks
              => spi_pc # "idle" \/ main_pc = "single"]_vars

\* A run of three writes, the last one returned before the budget, ended
\* with the counter at total_ticks.
C28_Witness ==
    /\ main_pc = "done"
    /\ writes_done = 3
    /\ LastWriteEnd < total_ticks
    /\ tick_count = total_ticks

(***************************************************************************)
(* C29: no event is dispatched early, in the stimulus players and in the   *)
(* composed-song run.                                                      *)
(***************************************************************************)

InitDispatch == InitBurst \/ InitSong

NextDispatch == NextPlayer \/ NextSong

SpecDispatch == InitDispatch /\ [][NextDispatch]_vars

\* C29: in the stimulus players the register write of an event begins with
\* the tick counter at or after the event's tick, whatever the order of the
\* list; in the composed-song run every note and filter event is applied
\* with the sample counter at or after the event's sample.
C29_NeverEarly ==
    /\ [][spi_pc = "idle" /\ spi_pc' # "idle" /\ variant \in Players
              => /\ main_pc = "writing"
                 /\ events[event_idx + 1].clk_tick <= tick_count]_vars
    /\ [](variant \in Players /\ main_pc = "writing" /\ ~SpiIdle
              => /\ events[event_idx + 1].clk_tick <= w_start
                 /\ w_start <= tick_count)
    /\ [][Len(applied') > Len(applied)
              => /\ Len(applied') = Len(applied) + 1
                 /\ applied'[Len(applied')].sample <= total_samples
                 /\ applied'[Len(applied')].at = total_samples
                 /\ writes_done' > writes_done]_vars
    /\ [](\A j \in 1..Len(applied) : applied[j].sample <= applied[j].at)

\* The second write of an unsorted list under way: its event carries an
\* earlier tick than the first one and is written late, never early.
C29_Witness ==
    /\ variant \in Players
    /\ main_pc = "writing" /\ spi_pc = "high"
    /\ event_idx = 1
    /\ Len(events) = 2
    /\ events[2].clk_tick < events[1].clk_tick
    /\ events[2].clk_tick < w_start

(***************************************************************************)
(* C30: the tick at which the register write of each event begins.         *)
(***************************************************************************)

Max(a, b) == IF a > b THEN a ELSE b

\* The lists C30 is about: sorted, first event not before the end of reset.
Schedulable(v, ev) == IsSorted(ev) /\ ev[1].clk_tick >= 2 * ResetTicks(v)

\* Consecutive events at least one write duration apart.
Spaced(ev, div) ==
    \A j \in 1..(Len(ev) - 1) :
        ev[j + 1].clk_tick - ev[j].clk_tick >= WriteDuration(div)

\* The tick at which the write of event k begins when every event starts at
\* its own tick or, if the write before it is still under way then, as soon
\* as that write has returned.
RECURSIVE StartOf(_, _, _)
StartOf(ev, div, k) ==
    IF k = 1 THEN ev[1].clk_tick
    ELSE Max(ev[k].clk_tick, StartOf(ev, div, k - 1) + WriteDuration(div))

\* By how much event k follows event k-1 sooner than one write duration.
Overlap(ev, div, k) == WriteDuration(div) - (ev[k].clk_tick - ev[k - 1].clk_tick)

\* C30: in a stimulus-player run over a sorted list whose first event is not
\* before the end of reset, the write of every event begins at the event's
\* own tick when consecutive events are at least one write duration apart;
\* an event that follows its predecessor sooner than one write duration
\* begins late by the predecessor's lateness plus the overlap, so lateness
\* accumulates over a burst.
C30_DispatchTiming ==
    [](variant \in Players /\ main_pc = "writing" /\ ~SpiIdle
           /\ Schedulable(variant, events)
       => LET k == event_idx + 1
          IN  /\ w_start = StartOf(events, spi_div, k)
              /\ Spaced(events, spi_div) => w_start = events[k].clk_tick
              /\ (k > 1 /\ Overlap(events, spi_div, k) > 0)
                     => w_start - events[k].clk_tick
                            = (StartOf(events, spi_div, k - 1) - events[k - 1].clk_tick)
                              + Overlap(events, spi_div, k))

\* The third write of a burst under way: the second event came four ticks
\* after the first and the third four ticks before the first write returned,
\* so the third write begins late by more than one write duration.
C30_Witness ==
    /\ variant = "sid"
    /\ main_pc = "writing" /\ spi_pc = "high"
    /\ Len(events) = 3 /\ event_idx = 2
    /\ events[2].clk_tick = events[1].clk_tick + 4
    /\ events[3].clk_tick = events[1].clk_tick + WriteDuration(spi_div) - 4
    /\ w_start = events[1].clk_tick + 2 * WriteDuration(spi_div)
    /\ w_start - events[3].clk_tick = WriteDuration(spi_div) + 4

(***************************************************************************)
(* C31: where the advance step of the simulation loop leaves the counter.  *)
(***************************************************************************)

\* C31: over a sorted list no tick of the advance step (batch or single
\* tick) takes the tick counter past the tick of the next event not yet
\* dispatched, and no tick of a batch takes it past next_sample or past the
\* target the batch was computed for.
C31_AdvanceBounded ==
    /\ [][(AdvanceTick /\ IsSorted(events) /\ event_idx < Len(events))
              => tick_count' <= events[event_idx + 1].clk_tick]_vars
    /\ [][(AdvanceTick /\ main_pc = "batch")
              => tick_count' <= next_sample /\ tick_count' <= target]_vars
    /\ [][(AdvanceTick /\ main_pc' = "report")
              => /\ event_idx' = event_idx
                 /\ (main_pc = "batch" => tick_count' = target)]_vars

\* A batch has just brought the counter exactly to the tick of the second
\* event of a sorted list, which is still to be dispatched.
C31_Witness ==
    /\ main_pc = "report"
    /\ Len(events) = 2 /\ event_idx = 1
    /\ events[1].clk_tick < events[2].clk_tick
    /\ tick_count = events[2].clk_tick
    /\ target = tick_count
    /\ writes_done = 1

(***************************************************************************)
(* C32: sample-boundary bookkeeping of the stimulus players.               *)
(***************************************************************************)

\* Sample periods the tick counter has completed.
SamplesElapsed == tick_count \div TICKS_PER_SAMPLE

\* C32: at every loop head next_sample = (sample_count + 1) x
\* TICKS_PER_SAMPLE and sample_count x TICKS_PER_SAMPLE <= tick counter;
\* sample_count changes only in the report step of an iteration and then by
\* one; while sample_count is behind the sample periods completed, the
\* advance step is the single-tick fallback, and a batch is started only
\* with sample_count caught up.
C32_SampleBookkeeping ==
    /\ [](main_pc = "loop"
              => /\ next_sample = (sample_count + 1) * TICKS_PER_SAMPLE
                 /\ sample_count * TICKS_PER_SAMPLE <= tick_count)
    /\ [][sample_count' # sample_count
              => /\ main_pc = "report"
                 /\ sample_count' = sample_count + 1
                 /\ iter'.n = iter.n + 1]_vars
    /\ [][(main_pc = "dispatch" /\ main_pc' \in {"batch", "single"}
              /\ SamplesElapsed > sample_count)
              => main_pc' = "single"]_vars
    /\ [][(main_pc = "dispatch" /\ main_pc' = "batch")
              => sample_count = SamplesElapsed]_vars

\* A loop head after a burst of writes that crossed several sample
\* boundaries: sample_count is two or more periods behind.
C32_Witness ==
    /\ main_pc = "loop"
    /\ writes_done >= 2
    /\ SamplesElapsed >= sample_count + 2
    /\ next_sample = (sample_count + 1) * TICKS_PER_SAMPLE

(***************************************************************************)
(* C33: dispatch order over lists whose ticks are in any order.            *)
(***************************************************************************)

\* C33: for any stimulus list the k-th register write of the loop is the
\* write of the k-th event of the list and begins only after the writes of
\* all events before it have returned; an event whose tick is earlier than
\* that of the event before it begins no sooner than one write duration
\* after that event's tick; and an event is left unwritten at the end of
\* the run only if the first unwritten event has a tick at or beyond the
\* tick budget.
C33_SequenceOrder ==
    /\ [][(spi_pc = "idle" /\ spi_pc' # "idle")
              => /\ writes_done = event_idx
                 /\ event_idx < Len(events)
                 /\ CurWrite = <<events[event_idx + 1].addr,
                                 events[event_idx + 1].data>>]_vars
    /\ [][event_idx' # event_idx => event_idx' = event_idx + 1]_vars
    /\ []((main_pc = "writing" /\ ~SpiIdle /\ event_idx >= 1
              /\ events[event_idx + 1].clk_tick < events[event_idx].clk_tick)
          => w_start >= events[event_idx].clk_tick + WriteDuration(spi_div))
    /\ []((main_pc \in {"flush", "done"} /\ event_idx < Len(events))
          => events[event_idx + 1].clk_tick >= total_ticks)

\* The second event of the file carries an earlier tick than the first and
\* another address; its write is under way, right after the first one.
C33_Witness ==
    /\ main_pc = "writing" /\ spi_pc = "low"
    /\ Len(events) = 2 /\ event_idx = 1 /\ writes_done = 1
    /\ events[2].clk_tick < events[1].clk_tick
    /\ events[1].addr # events[2].addr
    /\ CurWrite = <<events[2].addr, events[2].data>>
    /\ w_start = events[1].clk_tick + WriteDuration(spi_div)

(***************************************************************************)
(* C34: ticks of the composed-song run after capture is enabled.           *)
(***************************************************************************)

\* Register writes made by the sample loop so far.
LoopWrites == writes_done - SETUP_WRITES

InSampleLoop == main_pc \in {"song_loop", "song_notes", "song_filters"}

\* C34: in the sample loop the tick counter (zero when capture is enabled)
\* is TICKS_PER_SAMPLE x samples completed + W x register writes made by the
\* loop, W = 16 x SPI_CLK_DIV + SPI_CLK_DIV/2 + 20; an event scheduled at
\* sample s is dispatched at tick TICKS_PER_SAMPLE x s + W x (register
\* writes dispatched before it); every iteration advances exactly
\* TICKS_PER_SAMPLE ticks whatever was written in it; and the loop ends
\* after MAX_SAMPLES iterations with TICKS_PER_SAMPLE x MAX_SAMPLES + W x
\* (all register writes of the loop) ticks counted.
C34_WritesNotDeducted ==
    /\ [](InSampleLoop
              => tick_count = TICKS_PER_SAMPLE * total_samples
                                + WriteDuration(spi_div) * LoopWrites)
    /\ [][Len(applied') > Len(applied)
              => /\ tick_count = TICKS_PER_SAMPLE * applied'[Len(applied')].sample
                                   + WriteDuration(spi_div) * LoopWrites
                 /\ tick_count' = tick_count
                        + WriteDuration(spi_div) * (writes_done' - writes_done)]_vars
    /\ [][total_samples' = total_samples + 1
              => /\ tick_count' = tick_count + TICKS_PER_SAMPLE
                 /\ writes_done' = writes_done]_vars
    /\ []((variant = "song" /\ main_pc \in {"flush", "done"})
              => /\ total_samples = MAX_SAMPLES
                 /\ tick_count = TICKS_PER_SAMPLE * MAX_SAMPLES
                                   + WriteDuration(spi_div) * LoopWrites)

\* The end of a song run in which two notes and a filter event were applied.
C34_Witness ==
    /\ variant = "song" /\ main_pc = "flush"
    /\ Len(applied) = 3
    /\ LoopWrites >= 7
    /\ total_samples = MAX_SAMPLES
    /\ tick_count = TICKS_PER_SAMPLE * MAX_SAMPLES + WriteDuration(spi_div) * LoopWrites

(***************************************************************************)
(* C35: the capture buffer between captures, in PdmCapture and in the      *)
(* global copy of the stimulus player's sys_tick.                          *)
(***************************************************************************)

InitBuffers == InitCapture \/ InitPlayer

NextBuffers == NextCapture \/ NextPlayer

SpecBuffers == InitBuffers /\ [][NextBuffers]_vars

\* The captured bits not yet written to the file.
PendingBits == SubSeq(cap_in, 8 * Len(pdm.file) + 1, Len(cap_in))

\* C35: until the final flush, after every capture 0 <= bit_count <= 7,
\* total = 8 x (bytes written) + bit_count and the accumulator byte is
\* below 2^bit_count; a capture adds one to total and either one pending
\* bit or one byte to the file; and the accumulator holds exactly the bits
\* captured since the last byte was written, earliest bit highest.
C35_BufferInvariant ==
    /\ [](~pdm.closed
              => /\ pdm.bit_count \in 0..7
                 /\ pdm.total = 8 * Len(pdm.file) + pdm.bit_count
                 /\ pdm.byte < Pow2(pdm.bit_count))
    /\ [][pdm'.total # pdm.total
              => /\ pdm'.total = pdm.total + 1
                 /\ ~pdm'.closed
                 /\ IF pdm.bit_count = 7
                    THEN pdm'.bit_count = 0 /\ pdm'.byte = 0
                         /\ Len(pdm'.file) = Len(pdm.file) + 1
                    ELSE pdm'.bit_count = pdm.bit_count + 1
                         /\ pdm'.file = pdm.file]_vars
    /\ [](main_pc = "capture"
              => /\ Len(cap_in) = pdm.total
                 /\ pdm.byte = RxValue(PendingBits))

\* Ten bits captured, the first eight of them ones: one byte written, and
\* the two pending bits (1, 0) alone in the accumulator.
C35_Witness ==
    /\ main_pc = "capture"
    /\ cap_in = <<1, 1, 1, 1, 1, 1, 1, 1, 1, 0>>
    /\ pdm.file = <<255>>
    /\ pdm.bit_count = 2 /\ pdm.total = 10
    /\ pdm.byte = 2

(***************************************************************************)
(* C36: the frame encoder that masks the address and the ones that do not. *)
(***************************************************************************)

Bytes == 0..255

\* The two encoders agree on addr and data, address bit 7 does not change
\* the frame, and the write flag is set.
SameFrame(addr, data) ==
    /\ FrameCommon(addr, data) = FrameSid(addr, data)
    /\ FrameCommon(addr, data) = FrameCommon(addr % 128, data)
    /\ FrameSid(addr, data) = FrameSid(addr % 128, data)
    /\ FrameBit(FrameCommon(addr, data), 15) = 1
    /\ FrameCommon(addr, data) = 32768 + 256 * (addr % 128) + data

\* C36: for every 8-bit address and data the encoder of sim_common.h (and
\* sim_tt6581.cpp) and the encoder of sim_sid_player.cpp build the same
\* 16-bit frame, with bit 15 set and address bit 7 without effect; and the
\* sixteen bits a write puts on mosi_i are the bits of that frame whichever
\* of the encoders runs.
C36_SameFrame ==
    /\ []((variant = "sid" /\ writes_done = 0 /\ SpiIdle /\ wq = <<>>)
              => \A addr \in Bytes : \A data \in Bytes : SameFrame(addr, data))
    /\ [](wq # <<>> => SameFrame(CurWrite[1], CurWrite[2]))
    /\ []((variant \in {"common", "sid", "song"} /\ spi_pc # "idle" /\ Len(rx) = 16)
              => /\ RxValue(rx) = FrameCommon(CurWrite[1], CurWrite[2])
                 /\ RxValue(rx) = FrameSid(CurWrite[1], CurWrite[2]))

\* The sid player's encoder has sent address 0x82, data 0x80: the frame on
\* the wire is 0x8280, what the unmasked encoder builds too.
C36_Witness ==
    /\ variant = "sid"
    /\ spi_pc = "trail"
    /\ CurWrite = <<130, 128>>
    /\ Len(rx) = 16
    /\ RxValue(rx) = 33408
    /\ FrameCommon(130, 128) = 33408

(***************************************************************************)
(* C37: pins after a register write, and what a register write leaves      *)
(* alone.                                                                  *)
(***************************************************************************)

\* A step of spi_write, its first and its last included.
WriteStep == spi_pc # "idle" \/ spi_pc' # "idle"

\* C37: whenever no register write is under way (after every spi_write,
\* between two events and throughout the advance step) cs_i = 1 and
\* sclk_i = 0; and no step of spi_write changes rst_ni, the event index,
\* the event list, the sample bookkeeping, the tick budget or whether
\* capture is active.
C37_PinsAndFrame ==
    /\ [](SpiIdle => cs_i = 1 /\ sclk_i = 0)
    /\ [](main_pc \in {"loop", "dispatch", "batch", "single", "report", "flush", "done"}
              => SpiIdle /\ cs_i = 1 /\ sclk_i = 0)
    /\ [][(spi_pc # "idle" /\ spi_pc' = "idle")
              => cs_i' = 1 /\ sclk_i' = 0 /\ cs_i = 1 /\ sclk_i = 0]_vars
    /\ [][WriteStep
              => /\ rst_ni' = rst_ni
                 /\ events' = events /\ event_idx' = event_idx
                 /\ sample_count' = sample_count /\ next_sample' = next_sample
                 /\ total_ticks' = total_ticks /\ target' = target
                 /\ main_pc' = main_pc
                 /\ pdm'.active = pdm.active]_vars

\* Back in the dispatch loop after the first of two writes: chip-select
\* released, clock low, the last data bit still on mosi_i, reset released,
\* the second event pending.
C37_Witness ==
    /\ main_pc = "dispatch"
    /\ SpiIdle /\ writes_done = 1 /\ event_idx = 1
    /\ Len(events) = 2
    /\ cs_i = 1 /\ sclk_i = 0 /\ rst_ni = 1
    /\ mosi_i = events[1].data % 2
    /\ tick_count = w_start + WriteDuration(spi_div)

(***************************************************************************)
(* Envelope testbench (sim_envelope.cpp): the TDM sequencer of main.  One  *)
(* step is one pass of the while loop, its tick included.  The device is   *)
(* opaque: after every tick ready_o may be 0 or 1.                         *)
(***************************************************************************)

ENV_CYCLES_PER_SAMPLE == 8      \* CYCLES_PER_SAMPLE, scaled down
ENV_RESET_CYCLES      == 20     \* if (cycle_count < 20)
GATE_ON_CYCLE         == 100000     \* time_now > 0.002 at 20 ns per cycle
GATE_OFF_CYCLE        == 37500000   \* time_now < 0.75
MaxEnvCycles          == 48     \* MAX_CYCLES, scaled down
VOICES                == 3      \* current_voice < 3

\* The reset branch at the top of the loop body.
EnvAfterResetTest(e) ==
    IF e.cycle_count < ENV_RESET_CYCLES
    THEN [e EXCEPT !.tdm_phase = 0, !.sample_timer = 0, !.start_i = 0]
    ELSE e

\* if (time_now > 0.002 && time_now < 0.75) gate_i = 1; else gate_i = 0;
EnvGate(e) ==
    [e EXCEPT !.gate_i = IF e.cycle_count > GATE_ON_CYCLE /\ e.cycle_count < GATE_OFF_CYCLE
                         THEN 1 ELSE 0]

\* Faulty variant: the next voice is started in the pass that sees ready_o.
EnvPhase_SamePass(e) ==
    LET t == [e EXCEPT !.sample_timer = e.sample_timer + 1, !.start_i = 0]
    IN  CASE t.tdm_phase = 0 ->
                IF t.sample_timer >= ENV_CYCLES_PER_SAMPLE
                THEN [t EXCEPT !.sample_timer = 0, !.current_voice = 0, !.tdm_phase = 1]
                ELSE t
          [] t.tdm_phase = 1 ->
                [t EXCEPT !.voice_idx_i = t.current_voice, !.start_i = 1,
                          !.tdm_phase = 2,
                          !.starts = Append(t.starts, [cycle |-> t.cycle_count,
                                                       voice |-> t.current_voice])]
          [] OTHER ->
                IF t.ready_o = 1
                THEN IF t.current_voice + 1 < VOICES
                     THEN [t EXCEPT !.current_voice = t.current_voice + 1,
                                    !.voice_idx_i = t.current_voice + 1,
                                    !.start_i = 1, !.tdm_phase = 2,
                                    !.readies = Append(t.readies,
                                        [cycle |-> t.cycle_count, voice |-> t.current_voice]),
                                    !.starts = Append(t.starts,
                                        [cycle |-> t.cycle_count,
                                         voice |-> t.current_voice + 1])]
                     ELSE [t EXCEPT !.current_voice = t.current_voice + 1,
                                    !.tdm_phase = 0,
                                    !.readies = Append(t.readies,
                                        [cycle |-> t.cycle_count, voice |-> t.current_voice])]
                ELSE t

\* if (top->rst_ni) { sample_timer++; start_i = 0; switch (tdm_phase) ... }
\* A pass that drives start_i = 1 is recorded in starts, a pass that acts on
\* ready_o in readies, each with the cycle of the pass and the voice.
EnvPhase(e) ==
    LET t == [e EXCEPT !.sample_timer = e.sample_timer + 1, !.start_i = 0]
    IN  CASE t.tdm_phase = 0 ->
                IF t.sample_timer >= ENV_CYCLES_PER_SAMPLE
                THEN [t EXCEPT !.sample_timer = 0, !.current_voice = 0, !.tdm_phase = 1]
                ELSE t
          [] t.tdm_phase = 1 ->
                [t EXCEPT !.voice_idx_i = t.current_voice, !.start_i = 1,
                          !.tdm_phase = 2,
                          !.starts = Append(t.starts, [cycle |-> t.cycle_count,
                                                       voice |-> t.current_voice])]
          [] OTHER ->
                IF t.ready_o = 1
                THEN [t EXCEPT !.current_voice = t.current_voice + 1,
                               !.tdm_phase = IF t.current_voice + 1 < VOICES THEN 1 ELSE 0,
                               !.readies = Append(t.readies,
                                   [cycle |-> t.cycle_count, voice |-> t.current_voice])]
                ELSE t

\* The loop body up to the tick.
EnvBody(e) ==
    LET g == EnvGate(EnvAfterResetTest(e))
    IN  IF e.cycle_count < ENV_RESET_CYCLES THEN g ELSE EnvPhase(g)

InitEnvelope ==
    /\ InitCommon /\ NoLoop /\ NoSong
    /\ variant = "envelope"
    /\ spi_div = SPI_RATIO
    /\ main_pc = "env_loop"

\* One pass of while (cycle_count < MAX_CYCLES): body, tick, cycle_count++.
EnvCycle ==
    /\ main_pc = "env_loop"
    /\ env.cycle_count < MaxEnvCycles
    /\ rst_ni' = IF env.cycle_count < ENV_RESET_CYCLES THEN 0 ELSE 1
    /\ DoTick
    /\ \E r \in {0, 1} :
          \E e \in {EnvBody(env)} :
              env' = [e EXCEPT !.cycle_count = e.cycle_count + 1, !.ready_o = r]
    /\ UNCHANGED <<got_finish, rd, calc, loadVars, variant, main_pc, spi_div, cs_i, sclk_i,
                   mosi_i, spiVars, loopVars, songVars, act_time, cap_in>>

\* The loop has run its cycles: csv_file.close(); top->final().
EnvFinish ==
    /\ main_pc = "env_loop"
    /\ env.cycle_count >= MaxEnvCycles
    /\ main_pc' = "env_done"
    /\ UNCHANGED <<env, got_finish, rd, calc, loadVars, variant, spi_div, pinVars, tickVars,
                   spiVars, loopVars, songVars, act_time, cap_in>>

NextEnvelope == EnvCycle \/ EnvFinish

SpecEnvelope == InitEnvelope /\ [][NextEnvelope]_vars

(***************************************************************************)
(* C38: the start pulses of the envelope testbench.                        *)
(***************************************************************************)

\* Indices of the voice-0 start pulses that have a successor voice-0 pulse.
PeriodStarts == {j \in 1..Len(env.starts) : env.starts[j].voice = 0
                                            /\ j + VOICES <= Len(env.starts)}

\* Passes from the voice-0 start pulse j to the pass that acts on ready_o
\* for the last voice of that sample period.
ReadyDelay(j) == env.readies[j + VOICES - 1].cycle - env.starts[j].cycle

PulseSpacing(j) == env.starts[j + VOICES].cycle - env.starts[j].cycle

\* start_i is high for one tick at a time, voices are started in the order
\* 0, 1, 2, and each voice but the first of the run only in the pass after
\* the one that saw ready_o = 1 for the voice before it.
PulsesInOrder ==
    /\ \A j \in 1..Len(env.starts) :
          /\ env.starts[j].voice = (j - 1) % VOICES
          /\ env.starts[j].cycle >= ENV_RESET_CYCLES
          /\ j > 1 => /\ env.starts[j].cycle >= env.starts[j - 1].cycle + 2
                      /\ Len(env.readies) >= j - 1
                      /\ env.readies[j - 1].voice = (j - 2) % VOICES
                      /\ env.readies[j - 1].cycle > env.starts[j - 1].cycle
                      /\ env.readies[j - 1].cycle < env.starts[j].cycle
    /\ Len(env.readies) \in {Len(env.starts) - 1, Len(env.starts)} \cup {0}
    /\ env.start_i = 1 <=> (env.starts # <<>>
                              /\ env.starts[Len(env.starts)].cycle = env.cycle_count - 1)
    /\ env.start_i = 1 => env.voice_idx_i = env.starts[Len(env.starts)].voice

\* C38 as stated: pulses are single and in order, each after ready_o for
\* the voice before; and whenever ready_o for the third voice of a sample
\* period has been asserted within CYCLES_PER_SAMPLE ticks of the period
\* (counted from the pass that restarted the sample timer, one pass before
\* the voice-0 pulse), the next voice-0 pulse comes exactly
\* CYCLES_PER_SAMPLE ticks after this one.
C38_AsClaimed ==
    /\ [][env.start_i = 1 /\ env'.cycle_count # env.cycle_count => env'.start_i = 0]_vars
    /\ []PulsesInOrder
    /\ [](\A j \in PeriodStarts :
              ReadyDelay(j) + 1 <= ENV_CYCLES_PER_SAMPLE
                  => PulseSpacing(j) = ENV_CYCLES_PER_SAMPLE)

\* C38, amended: pulses are single and in order, each after ready_o for the
\* voice before; the next voice-0 pulse comes exactly CYCLES_PER_SAMPLE
\* ticks after this one whenever the pass that sees ready_o for the third
\* voice is at most CYCLES_PER_SAMPLE - 2 passes after the voice-0 pulse,
\* and otherwise two passes after that pass.
C38_StartPulses ==
    /\ [][env.start_i = 1 /\ env'.cycle_count # env.cycle_count => env'.start_i = 0]_vars
    /\ []PulsesInOrder
    /\ [](\A j \in PeriodStarts :
              /\ ReadyDelay(j) <= ENV_CYCLES_PER_SAMPLE - 2
                    => PulseSpacing(j) = ENV_CYCLES_PER_SAMPLE
              /\ ReadyDelay(j) > ENV_CYCLES_PER_SAMPLE - 2
                    => PulseSpacing(j) = ReadyDelay(j) + 2)

\* Two sample periods: in the first the third ready_o was seen as late as
\* the period allows, CYCLES_PER_SAMPLE - 2 passes after the voice-0 pulse,
\* and the second voice-0 pulse came exactly one period after the first.
C38_Witness ==
    /\ Len(env.starts) >= 5
    /\ env.starts[1].voice = 0 /\ env.starts[4].voice = 0
    /\ env.starts[2].voice = 1 /\ env.starts[3].voice = 2
    /\ env.readies[3].cycle = env.starts[1].cycle + ENV_CYCLES_PER_SAMPLE - 2
    /\ env.starts[4].cycle = env.starts[1].cycle + ENV_CYCLES_PER_SAMPLE

=============================================================================
